---- MODULE Spec2Model ----
(***************************************************************************)
(* Nexis kernel core: the bitmap frame allocator (memory.rs), the task     *)
(* table and its stacks (task.rs), the scheduler (scheduler.rs) and the    *)
(* switch primitive (context.rs), with the tick counter (pit.rs), the      *)
(* keyboard interrupt (interrupt.rs, kb.rs), the process table            *)
(* (process.rs) and the syscall dispatcher (syscall.rs, userland).         *)
(***************************************************************************)
EXTENDS Integers, Sequences, FiniteSets, TLC

VARIABLES
    PMM,        \* memory.rs PhysicalMemoryManager: bitmap, base_frame, total_frames, free_frames
    fresh,      \* history: only alloc_frame has been called since init
    log,        \* history: results of the alloc_frame calls made while fresh
    last,       \* history: the last call made, its arguments and its result
    freed_before, \* history: on an alloc_frame call, the frame freed by the call just before it
    TASK_TABLE, \* task.rs TASK_TABLE: tasks[slot] = (tid, rsp, stack_base, stack_size, state), next_tid
    CURRENT,    \* scheduler.rs CURRENT: Option<usize>
    locks,      \* each spin::Mutex: the context holding it
    running,    \* the context the single core is executing
    ctx,        \* each context's position: not started, running, spinning on a lock, suspended
    stack_mem,  \* the words prepare_stack has written, by address
    owned,      \* history: the frames alloc_stack obtained for the task in each slot
    TICK_COUNT, \* pit.rs TICK_COUNT
    NEED_RESCHED, \* pit.rs NEED_RESCHED
    SCANCODE_QUEUE, \* kb.rs SCANCODE_QUEUE: buf, head, tail
    PROC_TABLE, \* process.rs PROC_TABLE: procs[i] = (pid, slot, state, ...), next_pid
    proc_tid,   \* history: the tid of the task that the spawn of each process entry created
    VGA_OUT,    \* the lines vprintln! has put on the console
    pmm_call,   \* each core's allocator call in progress, in the two-core specification
    FILE_TABLE, \* fs.rs FILE_TABLE: files[i] = (used, name, len, data)
    FD_TABLE,   \* fs.rs FD_TABLE: fds[i] = (used, file_idx, pos)
    INIT_FLAG   \* fs.rs INIT_FLAG

pvars == <<fresh, log, freed_before>>
fsvars == <<FILE_TABLE, FD_TABLE, INIT_FLAG>>
xvars == <<proc_tid, VGA_OUT, pmm_call, fsvars>>
ivars == <<TICK_COUNT, NEED_RESCHED, SCANCODE_QUEUE, PROC_TABLE>>
kvars == <<TASK_TABLE, CURRENT, locks, running, ctx, stack_mem, owned, ivars>>
vars == <<PMM, last, pvars, xvars, kvars>>

---------------------------------------------------------------------------
(* Bounds of the model *)

\* largest pool handed to init in the allocator specification
MaxFrames == 9
\* alloc_frame calls logged after a fresh pool is exhausted
ExtraCalls == 2
\* slots of the task table (TaskTable::MAX_TASKS is 16 in task.rs; scaled down)
MAX_TASKS == 3
\* largest pool of the kernel specification
MaxPool == 8
\* largest stack, in pages, a caller of spawn asks for (besides one request too large)
MaxPages == 4
\* spawn is not called with a free slot once next_tid has passed this
MaxTid == 3
\* first managed frame of the demonstration pool (physical address 0x100000)
DemoBase == 256
\* entries of the process table (ProcessTable::MAX_PROCS is 64 in process.rs; scaled down)
MAX_PROCS == 2
\* slots of the scancode ring (BUF_SIZE is 1024 in kb.rs; scaled down)
BUF_SIZE == 3
\* pit::tick is not called once TICK_COUNT has reached this
MaxTicks == 2
\* process::spawn is not called once next_pid has passed this
MaxPid == 3
\* the write syscall is not made with fd 1 once the console holds this many lines
MaxOut == 1
\* bytes of the fallback buffer of the write syscall (256 in syscall.rs; scaled down)
OUT_LEN == 2
\* largest pool of the two-core specification
ConcFrames == 3
\* slots of the file table (MAX_FILES is 64 in fs.rs; scaled down)
MAX_FILES == 1
\* bytes of a file name (MAX_NAME is 32 in fs.rs; scaled down)
MAX_NAME == 2
\* bytes of a file (FILE_CAP is 4096 in fs.rs; scaled down)
FILE_CAP == 2
\* entries of the descriptor table (MAX_FDS is 128 in fs.rs; scaled down)
MAX_FDS == 2

---------------------------------------------------------------------------
(* memory.rs *)

FRAME_SIZE == 4096

\* usize::MAX, narrowed to the widest integer the checker computes with
USIZE_MAX == 2147483647

\* Option<T>
None == [some |-> FALSE, val |-> 0]
Some(v) == [some |-> TRUE, val |-> v]

\* 1u8 << bit
Mask(bit) == 2 ^ bit

\* (byte & (1u8 << bit)) != 0
BitSet(byte, bit) == (byte \div Mask(bit)) % 2 = 1

\* (total_frames + 7) / 8
BitmapBytes(total_frames) == (total_frames + 7) \div 8

\* AtomicUsize::fetch_sub(1): wraps below zero
FetchSub1(v) == IF v = 0 THEN USIZE_MAX ELSE v - 1

\* AtomicUsize::fetch_add(1): wraps above usize::MAX
FetchAdd1(v) == IF v = USIZE_MAX THEN 0 ELSE v + 1

\* PhysicalMemoryManager::init: zero the bitmap, record base, total and free count
PmmInit(base_frame, total_frames) ==
    [ bitmap       |-> [b \in 0..(BitmapBytes(total_frames) - 1) |-> 0],
      base_frame   |-> base_frame,
      total_frames |-> total_frames,
      free_frames  |-> total_frames ]

\* the range test shared by mark_used, mark_free and is_used
OutOfRange(pmm, phys_addr) ==
    LET frame == phys_addr \div FRAME_SIZE
    IN  frame < pmm.base_frame \/ frame >= pmm.base_frame + pmm.total_frames

\* PhysicalMemoryManager::is_used
IsUsed(pmm, phys_addr) ==
    IF OutOfRange(pmm, phys_addr) THEN FALSE
    ELSE LET idx == (phys_addr \div FRAME_SIZE) - pmm.base_frame
         IN  BitSet(pmm.bitmap[idx \div 8], idx % 8)

\* mark_used without its already-set test: sets the bit and decrements regardless
MarkUsed_NoCheck(pmm, phys_addr) ==
    IF OutOfRange(pmm, phys_addr) THEN [pmm |-> pmm, ret |-> FALSE]
    ELSE LET idx  == (phys_addr \div FRAME_SIZE) - pmm.base_frame
             byte == idx \div 8
             bit  == idx % 8
             old  == pmm.bitmap[byte]
         IN  [pmm |-> [pmm EXCEPT !.bitmap[byte] = IF BitSet(old, bit) THEN old
                                                    ELSE old + Mask(bit),
                                   !.free_frames = FetchSub1(@)],
              ret |-> TRUE]

\* PhysicalMemoryManager::mark_used
MarkUsed(pmm, phys_addr) ==
    IF OutOfRange(pmm, phys_addr) THEN [pmm |-> pmm, ret |-> FALSE]
    ELSE LET idx  == (phys_addr \div FRAME_SIZE) - pmm.base_frame
             byte == idx \div 8
             bit  == idx % 8
             old  == pmm.bitmap[byte]
         IN  IF BitSet(old, bit) THEN [pmm |-> pmm, ret |-> FALSE]
             ELSE [pmm |-> [pmm EXCEPT !.bitmap[byte] = old + Mask(bit),
                                       !.free_frames = FetchSub1(@)],
                   ret |-> TRUE]

\* mark_free that clears the bit and forgets the counter
MarkFree_NoCount(pmm, phys_addr) ==
    IF OutOfRange(pmm, phys_addr) THEN [pmm |-> pmm, ret |-> FALSE]
    ELSE LET idx  == (phys_addr \div FRAME_SIZE) - pmm.base_frame
             byte == idx \div 8
             bit  == idx % 8
             old  == pmm.bitmap[byte]
         IN  IF ~BitSet(old, bit) THEN [pmm |-> pmm, ret |-> FALSE]
             ELSE [pmm |-> [pmm EXCEPT !.bitmap[byte] = old - Mask(bit)],
                   ret |-> TRUE]

\* PhysicalMemoryManager::mark_free
MarkFree(pmm, phys_addr) ==
    IF OutOfRange(pmm, phys_addr) THEN [pmm |-> pmm, ret |-> FALSE]
    ELSE LET idx  == (phys_addr \div FRAME_SIZE) - pmm.base_frame
             byte == idx \div 8
             bit  == idx % 8
             old  == pmm.bitmap[byte]
         IN  IF ~BitSet(old, bit) THEN [pmm |-> pmm, ret |-> FALSE]
             ELSE [pmm |-> [pmm EXCEPT !.bitmap[byte] = old - Mask(bit),
                                       !.free_frames = FetchAdd1(@)],
                   ret |-> TRUE]

\* the scan without its idx >= total_frames test
RECURSIVE AllocScan_NoBound(_, _, _)
AllocScan_NoBound(pmm, b, bit) ==
    IF b >= BitmapBytes(pmm.total_frames) THEN [pmm |-> pmm, ret |-> None]
    ELSE IF pmm.bitmap[b] = 255 THEN AllocScan_NoBound(pmm, b + 1, 0)
    ELSE IF bit >= 8 THEN AllocScan_NoBound(pmm, b + 1, 0)
    ELSE LET idx == b * 8 + bit
             cur == pmm.bitmap[b]
         IN  IF ~BitSet(cur, bit)
             THEN [pmm |-> [pmm EXCEPT !.bitmap[b] = cur + Mask(bit),
                                       !.free_frames = FetchSub1(@)],
                   ret |-> Some((pmm.base_frame + idx) * FRAME_SIZE)]
             ELSE AllocScan_NoBound(pmm, b, bit + 1)

\* the scan trying the bits of a byte from the highest down
RECURSIVE AllocScan_RevBits(_, _, _)
AllocScan_RevBits(pmm, b, bit) ==
    IF b >= BitmapBytes(pmm.total_frames) THEN [pmm |-> pmm, ret |-> None]
    ELSE IF pmm.bitmap[b] = 255 THEN AllocScan_RevBits(pmm, b + 1, 7)
    ELSE IF bit < 0 THEN AllocScan_RevBits(pmm, b + 1, 7)
    ELSE LET idx == b * 8 + bit
             cur == pmm.bitmap[b]
         IN  IF idx < pmm.total_frames /\ ~BitSet(cur, bit)
             THEN [pmm |-> [pmm EXCEPT !.bitmap[b] = cur + Mask(bit),
                                       !.free_frames = FetchSub1(@)],
                   ret |-> Some((pmm.base_frame + idx) * FRAME_SIZE)]
             ELSE AllocScan_RevBits(pmm, b, bit - 1)

\* alloc_frame over the reversed scan
AllocFrame_RevBits(pmm) == AllocScan_RevBits(pmm, 0, 7)

\* PhysicalMemoryManager::alloc_frame: the scan, from byte b and bit `bit` on
RECURSIVE AllocScan(_, _, _)
AllocScan(pmm, b, bit) ==
    IF b >= BitmapBytes(pmm.total_frames) THEN [pmm |-> pmm, ret |-> None]
    ELSE IF pmm.bitmap[b] = 255 THEN AllocScan(pmm, b + 1, 0)
    ELSE IF bit >= 8 THEN AllocScan(pmm, b + 1, 0)
    ELSE LET idx == b * 8 + bit
             cur == pmm.bitmap[b]
         IN  IF idx >= pmm.total_frames THEN AllocScan(pmm, b + 1, 0)
             ELSE IF ~BitSet(cur, bit)
                  THEN [pmm |-> [pmm EXCEPT !.bitmap[b] = cur + Mask(bit),
                                            !.free_frames = FetchSub1(@)],
                        ret |-> Some((pmm.base_frame + idx) * FRAME_SIZE)]
                  ELSE AllocScan(pmm, b, bit + 1)

\* PhysicalMemoryManager::alloc_frame
AllocFrame(pmm) == AllocScan(pmm, 0, 0)

\* PhysicalMemoryManager::free_frame
FreeFrame(pmm, addr) == MarkFree(pmm, addr)

---------------------------------------------------------------------------
(* task.rs *)

\* the length of alloc_stack's addrs array
STACK_ADDRS_LEN == 64

\* core::mem::size_of::<usize>()
WORD_SIZE == 8

\* Task::empty()
EmptyTask == [tid |-> 0, rsp |-> 0, stack_base |-> 0, stack_size |-> 0, state |-> "Finished"]

\* TaskTable::new()
NewTaskTable == [tasks |-> [i \in 0..(MAX_TASKS - 1) |-> EmptyTask], next_tid |-> 1]

\* find_free_slot that takes any slot whose task is not Running
FindFreeSlot_NotRunning(tbl) ==
    LET free == { i \in DOMAIN tbl.tasks : tbl.tasks[i].state # "Running" }
    IN  IF free = {} THEN None
        ELSE Some(CHOOSE i \in free : \A j \in free : i <= j)

\* TaskTable::find_free_slot: the first slot whose state is Finished
FindFreeSlot(tbl) ==
    LET free == { i \in DOMAIN tbl.tasks : tbl.tasks[i].state = "Finished" }
    IN  IF free = {} THEN None
        ELSE Some(CHOOSE i \in free : \A j \in free : i <= j)

\* alloc_stack's failure path: free addrs[0..i), in order
RECURSIVE FreeAddrs(_, _, _)
FreeAddrs(pmm, addrs, j) ==
    IF j > Len(addrs) THEN pmm
    ELSE FreeAddrs(FreeFrame(pmm, addrs[j]).pmm, addrs, j + 1)

\* the smallest of the addresses obtained, usize::MAX when there is none
MinAddr(addrs) ==
    IF addrs = <<>> THEN USIZE_MAX
    ELSE CHOOSE a \in { addrs[k] : k \in 1..Len(addrs) } :
            \A k \in 1..Len(addrs) : a <= addrs[k]

\* alloc_stack that returns None without freeing what it obtained
RECURSIVE AllocStackLoop_NoRollback(_, _, _)
AllocStackLoop_NoRollback(pmm, pages, addrs) ==
    IF Len(addrs) = pages
    THEN [pmm |-> pmm, addrs |-> addrs,
          ret |-> Some([stack_base |-> MinAddr(addrs), stack_size |-> pages * FRAME_SIZE])]
    ELSE LET r == AllocFrame(pmm)
         IN  IF r.ret.some
             THEN AllocStackLoop_NoRollback(r.pmm, pages, Append(addrs, r.ret.val))
             ELSE [pmm |-> r.pmm, addrs |-> <<>>, ret |-> None]

\* alloc_stack: the loop obtaining one frame per page, the frames so far in addrs
RECURSIVE AllocStackLoop(_, _, _)
AllocStackLoop(pmm, pages, addrs) ==
    IF Len(addrs) = pages
    THEN [pmm |-> pmm, addrs |-> addrs,
          ret |-> Some([stack_base |-> MinAddr(addrs), stack_size |-> pages * FRAME_SIZE])]
    ELSE LET r == AllocFrame(pmm)
         IN  IF r.ret.some
             THEN AllocStackLoop(r.pmm, pages, Append(addrs, r.ret.val))
             ELSE [pmm |-> FreeAddrs(r.pmm, addrs, 1), addrs |-> <<>>, ret |-> None]

\* alloc_stack
AllocStack(pmm, pages) ==
    IF pages > STACK_ADDRS_LEN THEN [pmm |-> pmm, addrs |-> <<>>, ret |-> None]
    ELSE AllocStackLoop(pmm, pages, <<>>)

\* free_stack: free_frame on base, base + 4096, ... for size / 4096 pages
RECURSIVE FreeStackLoop(_, _, _, _)
FreeStackLoop(pmm, base, pages, i) ==
    IF i >= pages THEN pmm
    ELSE FreeStackLoop(FreeFrame(pmm, base + i * FRAME_SIZE).pmm, base, pages, i + 1)

\* free_stack
FreeStack(pmm, base, size) == FreeStackLoop(pmm, base, size \div FRAME_SIZE, 0)

\* a stack word: a number, or the address of an entry function
IntWord(v) == [int |-> v, code |-> "none"]
CodeWord(entry) == [int |-> 0, code |-> entry]

\* prepare_stack: the 16-byte aligned top, the entry pushed as return address,
\* then a zero for rbp; returns the resulting stack pointer and the two writes
PrepareStack(entry, stack_base, stack_size) ==
    LET top == stack_base + stack_size
        sp0 == top - (top % 16)
        sp1 == sp0 - WORD_SIZE
        sp2 == sp1 - WORD_SIZE
    IN  [sp |-> sp2, writes |-> <<[addr |-> sp1, word |-> CodeWord(entry)],
                                  [addr |-> sp2, word |-> IntWord(0)]>>]

\* memory after the writes of prepare_stack
WriteAll(mem, writes) ==
    [a \in (DOMAIN mem) \cup { writes[k].addr : k \in 1..Len(writes) } |->
        IF \E k \in 1..Len(writes) : writes[k].addr = a
        THEN LET k == CHOOSE m \in 1..Len(writes) :
                        /\ writes[m].addr = a
                        /\ \A m2 \in 1..Len(writes) : writes[m2].addr = a => m2 <= m
             IN  writes[k].word
        ELSE mem[a]]

---------------------------------------------------------------------------
(* scheduler.rs: the operations on the tables *)

\* spawn that records the slot as Ready before alloc_stack has succeeded
SpawnOp_ClaimSlotFirst(tbl, pmm, entry, pages) ==
    LET slot == FindFreeSlot(tbl)
    IN  IF ~slot.some
        THEN [tbl |-> tbl, pmm |-> pmm, writes |-> <<>>, addrs |-> <<>>, ret |-> None]
        ELSE LET tid  == tbl.next_tid
                 tbl1 == [tbl EXCEPT !.next_tid = @ + 1,
                                     !.tasks[slot.val].tid = tid,
                                     !.tasks[slot.val].state = "Ready"]
                 st   == AllocStack(pmm, pages)
             IN  IF st.ret.some
                 THEN LET ps == PrepareStack(entry, st.ret.val.stack_base,
                                             st.ret.val.stack_size)
                      IN  [tbl |-> [tbl1 EXCEPT !.tasks[slot.val] =
                                        [tid |-> tid, rsp |-> ps.sp,
                                         stack_base |-> st.ret.val.stack_base,
                                         stack_size |-> st.ret.val.stack_size,
                                         state |-> "Ready"]],
                           pmm |-> st.pmm, writes |-> ps.writes, addrs |-> st.addrs,
                           ret |-> slot]
                 ELSE [tbl |-> tbl1, pmm |-> st.pmm, writes |-> <<>>, addrs |-> <<>>,
                       ret |-> None]

\* spawn that records the new task as Running
SpawnOp_Running(tbl, pmm, entry, pages) ==
    LET slot == FindFreeSlot(tbl)
    IN  IF ~slot.some
        THEN [tbl |-> tbl, pmm |-> pmm, writes |-> <<>>, addrs |-> <<>>, ret |-> None]
        ELSE LET tid  == tbl.next_tid
                 tbl1 == [tbl EXCEPT !.next_tid = @ + 1]
                 st   == AllocStack(pmm, pages)
             IN  IF st.ret.some
                 THEN LET ps == PrepareStack(entry, st.ret.val.stack_base,
                                             st.ret.val.stack_size)
                      IN  [tbl |-> [tbl1 EXCEPT !.tasks[slot.val] =
                                        [tid |-> tid, rsp |-> ps.sp,
                                         stack_base |-> st.ret.val.stack_base,
                                         stack_size |-> st.ret.val.stack_size,
                                         state |-> "Running"]],
                           pmm |-> st.pmm, writes |-> ps.writes, addrs |-> st.addrs,
                           ret |-> slot]
                 ELSE [tbl |-> tbl1, pmm |-> st.pmm, writes |-> <<>>, addrs |-> <<>>,
                       ret |-> None]

\* spawn that numbers the task after its slot instead of taking the next tid
SpawnOp_TidBySlot(tbl, pmm, entry, pages) ==
    LET slot == FindFreeSlot(tbl)
    IN  IF ~slot.some
        THEN [tbl |-> tbl, pmm |-> pmm, writes |-> <<>>, addrs |-> <<>>, ret |-> None]
        ELSE LET tid  == slot.val + 1
                 tbl1 == [tbl EXCEPT !.next_tid = @ + 1]
                 st   == AllocStack(pmm, pages)
             IN  IF st.ret.some
                 THEN LET ps == PrepareStack(entry, st.ret.val.stack_base,
                                             st.ret.val.stack_size)
                      IN  [tbl |-> [tbl1 EXCEPT !.tasks[slot.val] =
                                        [tid |-> tid, rsp |-> ps.sp,
                                         stack_base |-> st.ret.val.stack_base,
                                         stack_size |-> st.ret.val.stack_size,
                                         state |-> "Ready"]],
                           pmm |-> st.pmm, writes |-> ps.writes, addrs |-> st.addrs,
                           ret |-> slot]
                 ELSE [tbl |-> tbl1, pmm |-> st.pmm, writes |-> <<>>, addrs |-> <<>>,
                       ret |-> None]

\* spawn, with TASK_TABLE locked: find a slot, take a tid, allocate and prepare
\* the stack, record the task as Ready
SpawnOp(tbl, pmm, entry, pages) ==
    LET slot == FindFreeSlot(tbl)
    IN  IF ~slot.some
        THEN [tbl |-> tbl, pmm |-> pmm, writes |-> <<>>, addrs |-> <<>>, ret |-> None]
        ELSE LET tid  == tbl.next_tid
                 tbl1 == [tbl EXCEPT !.next_tid = @ + 1]
                 st   == AllocStack(pmm, pages)
             IN  IF st.ret.some
                 THEN LET ps == PrepareStack(entry, st.ret.val.stack_base,
                                             st.ret.val.stack_size)
                      IN  [tbl |-> [tbl1 EXCEPT !.tasks[slot.val] =
                                        [tid |-> tid, rsp |-> ps.sp,
                                         stack_base |-> st.ret.val.stack_base,
                                         stack_size |-> st.ret.val.stack_size,
                                         state |-> "Ready"]],
                           pmm |-> st.pmm, writes |-> ps.writes, addrs |-> st.addrs,
                           ret |-> slot]
                 ELSE [tbl |-> tbl1, pmm |-> st.pmm, writes |-> <<>>, addrs |-> <<>>,
                       ret |-> None]

\* task_exit, with TASK_TABLE locked: mark Finished, free the recorded stack range
TaskExitOp(tbl, pmm, slot) ==
    LET t == tbl.tasks[slot]
    IN  [tbl |-> [tbl EXCEPT !.tasks[slot].state = "Finished"],
         pmm |-> IF t.stack_size # 0 THEN FreeStack(pmm, t.stack_base, t.stack_size)
                 ELSE pmm]

\* a scan that takes the lowest Ready slot wherever it starts
FindReadyFrom_Lowest(tbl, start) ==
    LET ready == { i \in 0..(MAX_TASKS - 1) : tbl.tasks[i].state = "Ready" }
    IN  IF ready = {} THEN None
        ELSE Some(CHOOSE i \in ready : \A j \in ready : i <= j)

\* the scan of schedule_loop and schedule_tick: the first Ready slot among
\* (start + 1) % n, (start + 2) % n, ..., (start + n) % n
FindReadyFrom(tbl, start) ==
    LET n    == MAX_TASKS
        offs == { off \in 1..n : tbl.tasks[(start + off) % n].state = "Ready" }
    IN  IF offs = {} THEN None
        ELSE Some((start + (CHOOSE o \in offs : \A o2 \in offs : o <= o2)) % n)

\* where that scan starts: CURRENT, or n - 1 when there is none
ScanStart(cur) == IF cur.some THEN cur.val ELSE MAX_TASKS - 1

\* a scan of task_yield that does not skip the caller's own slot
YieldPick_IncludeSelf(tbl, cur_idx) ==
    LET ready == { i \in 0..(MAX_TASKS - 1) : tbl.tasks[i].state = "Ready" }
    IN  IF ready = {} THEN None
        ELSE Some(CHOOSE i \in ready : \A j \in ready : i <= j)

\* the scan of task_yield: the first Ready slot among 0, 1, ..., n - 1 but cur_idx
YieldPick(tbl, cur_idx) ==
    LET ready == { i \in 0..(MAX_TASKS - 1) : i # cur_idx /\ tbl.tasks[i].state = "Ready" }
    IN  IF ready = {} THEN None
        ELSE Some(CHOOSE i \in ready : \A j \in ready : i <= j)

---------------------------------------------------------------------------
(* The kernel: one core, the boot context and one context per task slot *)

\* the context that boots the kernel and calls schedule_loop
BootCtx == MAX_TASKS
Ctxs == 0..MAX_TASKS
\* a spin::Mutex nobody holds
NoHolder == MAX_TASKS + 1

\* the entry functions tasks are spawned with
Entries == {"task_main"}

\* the stack sizes callers of spawn ask for: 0..MaxPages pages, and one more
\* than alloc_stack's addrs array holds
PageRequests == (0..MaxPages) \cup {STACK_ADDRS_LEN + 1}

\* positions of a context
NoTask == [at |-> "none", fn |-> "none", lock |-> "none"]
\* a prepared stack that no context_switch has loaded yet
NewCtx == [at |-> "new", fn |-> "none", lock |-> "none"]
\* executing its own code, outside any kernel call
Run == [at |-> "run", fn |-> "none", lock |-> "none"]
\* inside schedule_loop, between two iterations
Idle == [at |-> "idle", fn |-> "schedule_loop", lock |-> "none"]
\* inside spin::Mutex::lock of a mutex that is held
Spin(fn, lock) == [at |-> "spin", fn |-> fn, lock |-> lock]
\* inside context_switch called by fn, its registers saved on its own stack
Suspended(fn) == [at |-> "switched", fn |-> fn, lock |-> "none"]
\* resumed through a stack pointer that no longer points at a saved context
Wild == [at |-> "wild", fn |-> "none", lock |-> "none"]

\* inside read_scancode_blocking, holding the guard of SCANCODE_QUEUE.lock()
QueueLocked == [at |-> "locked", fn |-> "read_scancode_blocking", lock |-> "SCANCODE_QUEUE"]
\* inside read_scancode_blocking, halted by hlt() until the next interrupt
Halted == [at |-> "hlt", fn |-> "read_scancode_blocking", lock |-> "none"]
\* inside read_scancode_blocking, at the top of its loop after an interrupt
Looping == [at |-> "loop", fn |-> "read_scancode_blocking", lock |-> "none"]

\* the spin::Mutex statics the core takes: task table, CURRENT, process table,
\* the allocator's own, and the scancode queue
LockNames == {"TASK_TABLE", "CURRENT", "PROC_TABLE", "PMM", "SCANCODE_QUEUE"}

Held(l) == locks[l] # NoHolder

\* context.rs: the registers context_switch pops from the new stack before ret
RESTORED_REGS == 6

\* rsp + k as the pops compute it, modulo the width of usize
WrappingAdd(a, k) ==
    IF a > USIZE_MAX - k THEN a - (USIZE_MAX - k) - 1 ELSE a + k

\* where context_switch's ret lands on the stack loaded from new_rsp: the word
\* above the popped registers. An entry address written there starts the task;
\* a number written there is not code; a word nobody wrote holds any value
RetTargets(mem, new_rsp) ==
    LET ret_at == WrappingAdd(new_rsp, RESTORED_REGS * WORD_SIZE)
    IN  IF ret_at \notin DOMAIN mem THEN {Run, Wild}
        ELSE IF mem[ret_at].code # "none" THEN {Run}
        ELSE {Wild}

\* context_switch(&mut old_rsp, tasks[next].rsp): the caller is suspended in
\* fn with its registers pushed; the stack of slot next is loaded. The rsp of a
\* slot that ran before is still the one prepare_stack returned, its stack
\* overwritten since
ContextSwitch(fn, next) ==
    /\ running' = next
    /\ \E pos \in (IF ctx[next].at = "new"
                    THEN RetTargets(stack_mem, TASK_TABLE.tasks[next].rsp)
                    ELSE {Wild}) :
          ctx' = [ctx EXCEPT ![running] = Suspended(fn), ![next] = pos]

\* a bool result, in the shape of the Option results
BoolRet(b) == [some |-> b, val |-> 0]

\* the record of a call: its name, its numeric argument (address, slot or pages),
\* its result, and whether it has returned
Call(op, arg, ret, done) ==
    [op |-> op, arg |-> arg, entry |-> "none", ret |-> ret, done |-> done]
CallSpawn(entry, pages, ret, done) ==
    [op |-> "spawn", arg |-> pages, entry |-> entry, ret |-> ret, done |-> done]

\* ScancodeQueue::new()
NewScancodeQueue == [buf |-> [i \in 0..(BUF_SIZE - 1) |-> 0], head |-> 0, tail |-> 0]

\* push without its full test: stores and advances head onto tail
QueuePush_Overwriting(q, sc) ==
    [q EXCEPT !.buf[q.head] = sc, !.head = (q.head + 1) % BUF_SIZE]

\* ScancodeQueue::push: store at head unless the ring is full, then drop
QueuePush(q, sc) ==
    LET next == (q.head + 1) % BUF_SIZE
    IN  IF next # q.tail
        THEN [q EXCEPT !.buf[q.head] = sc, !.head = next]
        ELSE q

\* ScancodeQueue::pop: None if tail has caught up with head, else the byte at tail
QueuePop(q) ==
    IF q.tail = q.head THEN [q |-> q, ret |-> None]
    ELSE [q |-> [q EXCEPT !.tail = (q.tail + 1) % BUF_SIZE], ret |-> Some(q.buf[q.tail])]

\* Process::empty()
EmptyProcess ==
    [pid |-> 0, slot |-> 0, state |-> "Zombie", until |-> 0,
     stack_base |-> 0, stack_size |-> 0, parent |-> None]

\* ProcessTable::new()
NewProcessTable == [procs |-> [i \in 0..(MAX_PROCS - 1) |-> EmptyProcess], next_pid |-> 1]

\* wake_sleepers without its test of the wake tick: wakes every Sleeping entry
WakeSleepers_All(pt, ticks) ==
    [pt EXCEPT !.procs = [i \in 0..(MAX_PROCS - 1) |->
        IF pt.procs[i].state = "Sleeping"
        THEN [pt.procs[i] EXCEPT !.state = "Runnable", !.until = 0]
        ELSE pt.procs[i]]]

\* process::wake_sleepers: every Sleeping(until) entry with ticks >= until
\* becomes Runnable
WakeSleepers(pt, ticks) ==
    [pt EXCEPT !.procs = [i \in 0..(MAX_PROCS - 1) |->
        IF pt.procs[i].state = "Sleeping" /\ ticks >= pt.procs[i].until
        THEN [pt.procs[i] EXCEPT !.state = "Runnable", !.until = 0]
        ELSE pt.procs[i]]]

\* ProcessTable::alloc_slot: the first Zombie entry
AllocSlot(pt) ==
    LET z == { i \in 0..(MAX_PROCS - 1) : pt.procs[i].state = "Zombie" }
    IN  IF z = {} THEN None ELSE Some(CHOOSE i \in z : \A j \in z : i <= j)

\* the entry process::spawn records
NewProcess(pid, slot, pages, parent) ==
    [pid |-> pid, slot |-> slot, state |-> "Runnable", until |-> 0,
     stack_base |-> 0, stack_size |-> pages * FRAME_SIZE, parent |-> parent]

\* the scan of exit_self and sleep_ms: the first entry holding this pid,
\* whatever its state
FindPid(pt, pid) ==
    LET m == { i \in 0..(MAX_PROCS - 1) : pt.procs[i].pid = pid }
    IN  IF m = {} THEN None ELSE Some(CHOOSE i \in m : \A j \in m : i <= j)

\* process::current_pid with the value read from CURRENT: the pid of the
\* first entry that is not Zombie and holds the current slot
CurrentPidOf(pt, cur) ==
    LET m == { i \in 0..(MAX_PROCS - 1) :
                 cur.some /\ pt.procs[i].slot = cur.val /\ pt.procs[i].state # "Zombie" }
    IN  IF m = {} THEN None
        ELSE Some(pt.procs[CHOOSE i \in m : \A j \in m : i <= j].pid)

\* u64::MAX, as wide as the model's integers go
U64_MAX == 2147483647

\* u64::saturating_add
SaturatingAdd(a, b) == IF a > U64_MAX - b THEN U64_MAX ELSE a + b

\* a sleep_ms that wakes one tick early
SleepMsOp_Early(pt, pid, ticks, ms) ==
    LET i == FindPid(pt, pid)
    IN  IF i.some /\ ms > 0
        THEN [pt EXCEPT !.procs[i.val].state = "Sleeping",
                        !.procs[i.val].until = SaturatingAdd(ticks, ms) - 1]
        ELSE pt

\* process::sleep_ms, with PROC_TABLE locked: wake = ticks saturating_add ms,
\* stored in the first entry holding this pid
SleepMsOp(pt, pid, ticks, ms) ==
    LET i == FindPid(pt, pid)
    IN  IF i.some
        THEN [pt EXCEPT !.procs[i.val].state = "Sleeping",
                        !.procs[i.val].until = SaturatingAdd(ticks, ms)]
        ELSE pt

---------------------------------------------------------------------------
(* fs.rs: the RAM file store *)

FD_BASE == 3

\* File::empty()
EmptyFile ==
    [used |-> FALSE, name |-> [j \in 0..(MAX_NAME - 1) |-> 0], len |-> 0,
     data |-> [k \in 0..(FILE_CAP - 1) |-> 0]]

\* FdEntry::empty()
EmptyFd == [used |-> FALSE, file_idx |-> 0, pos |-> 0]

\* the lazy_static tables and flag before their first use
FsStatics ==
    /\ FILE_TABLE = [i \in 0..(MAX_FILES - 1) |-> EmptyFile]
    /\ FD_TABLE = [i \in 0..(MAX_FDS - 1) |-> EmptyFd]
    /\ INIT_FLAG = FALSE

\* a pointer argument and the bytes behind it: null, or a buffer
NullPtr == [null |-> TRUE, bytes |-> <<>>]
Buf(bytes) == [null |-> FALSE, bytes |-> bytes]

\* first index of a set of indices, as Option
FirstOf(S) == IF S = {} THEN None ELSE Some(CHOOSE i \in S : \A j \in S : i <= j)

\* find_free_file_slot
FindFreeFileSlot(ft) == FirstOf({ i \in DOMAIN ft : ~ft[i].used })

\* the inner loop of find_file_by_name on one file's stored name, from byte j:
\* walk the stored bytes up to the first 0 or MAX_NAME, give up on a byte past
\* the end of `name` or a differing byte, then require j = name.len()
RECURSIVE NameMatches(_, _, _)
NameMatches(stored, name, j) ==
    IF j >= MAX_NAME \/ stored[j] = 0 THEN j = Len(name)
    ELSE IF j >= Len(name) THEN FALSE
    ELSE IF stored[j] # name[j + 1] THEN FALSE
    ELSE NameMatches(stored, name, j + 1)

\* find_file_by_name
FindFileByName(ft, name) ==
    FirstOf({ i \in DOMAIN ft : ft[i].used /\ NameMatches(ft[i].name, name, 0) })

\* alloc_fd that hands out the lowest descriptor whether it is open or not
AllocFd_Lowest(fdt) ==
    [fdt |-> [fdt EXCEPT ![0] = [used |-> TRUE, file_idx |-> 0, pos |-> 0]],
     ret |-> Some(FD_BASE)]

\* alloc_fd: take the first unused entry, return its index + FD_BASE
AllocFd(fdt) ==
    LET i == FirstOf({ k \in DOMAIN fdt : ~fdt[k].used })
    IN  IF i.some
        THEN [fdt |-> [fdt EXCEPT ![i.val] = [used |-> TRUE, file_idx |-> 0, pos |-> 0]],
              ret |-> Some(i.val + FD_BASE)]
        ELSE [fdt |-> fdt, ret |-> None]

\* fd_to_index
FdToIndex(fd) ==
    IF fd < FD_BASE THEN None
    ELSE IF fd - FD_BASE >= MAX_FDS THEN None
    ELSE Some(fd - FD_BASE)

\* usize::saturating_sub
SaturatingSub(a, b) == IF a >= b THEN a - b ELSE 0

\* dst[at .. at + n].copy_from_slice(&src[..n]) on a byte array
CopyInto(dst, at, src, n) ==
    [k \in DOMAIN dst |-> IF k >= at /\ k < at + n THEN src[k - at + 1] ELSE dst[k]]

\* fs_init: once, README.txt in slot 0 (name and content cut to the scaled sizes)
FsInitOp(ft, flag) ==
    IF flag THEN ft
    ELSE [ft EXCEPT ![0] = [used |-> TRUE,
                            name |-> CopyInto(ft[0].name, 0, <<82>>, 1),
                            len  |-> 2,
                            data |-> CopyInto(ft[0].data, 0, <<73, 114>>, 2)]]

\* fs_create(name_ptr, name_len, data_ptr, data_len): the slot, or usize::MAX
FsCreateOp(ft, name, data, data_len) ==
    IF name.null THEN [ft |-> ft, ret |-> USIZE_MAX]
    ELSE IF Len(name.bytes) = 0 \/ Len(name.bytes) >= MAX_NAME
    THEN [ft |-> ft, ret |-> USIZE_MAX]
    ELSE IF FindFileByName(ft, name.bytes).some THEN [ft |-> ft, ret |-> USIZE_MAX]
    ELSE LET slot == FindFreeFileSlot(ft)
             take == IF data_len < FILE_CAP THEN data_len ELSE FILE_CAP
             nm   == CopyInto([j \in 0..(MAX_NAME - 1) |-> 0], 0, name.bytes,
                              Len(name.bytes))
         IN  IF ~slot.some THEN [ft |-> ft, ret |-> USIZE_MAX]
             ELSE IF ~data.null /\ take > 0
             THEN [ft |-> [ft EXCEPT ![slot.val] =
                              [used |-> TRUE, name |-> nm, len |-> take,
                               data |-> CopyInto(ft[slot.val].data, 0, data.bytes, take)]],
                   ret |-> slot.val]
             ELSE [ft |-> [ft EXCEPT ![slot.val].used = TRUE, ![slot.val].name = nm,
                                     ![slot.val].len = 0],
                   ret |-> slot.val]

\* fs_open(name_ptr, name_len): the descriptor, or usize::MAX
FsOpenOp(ft, fdt, name) ==
    IF name.null THEN [fdt |-> fdt, ret |-> USIZE_MAX]
    ELSE LET idx == FindFileByName(ft, name.bytes)
         IN  IF ~idx.some THEN [fdt |-> fdt, ret |-> USIZE_MAX]
             ELSE LET a == AllocFd(fdt)
                  IN  IF ~a.ret.some THEN [fdt |-> a.fdt, ret |-> USIZE_MAX]
                      ELSE [fdt |-> [a.fdt EXCEPT ![a.ret.val - FD_BASE].file_idx = idx.val,
                                                  ![a.ret.val - FD_BASE].pos = 0],
                            ret |-> a.ret.val]

\* fs_read(fd, buf_ptr, len): bytes copied, or usize::MAX
FsReadOp(ft, fdt, fd, buf, len) ==
    LET idx == FdToIndex(fd)
    IN  IF ~idx.some THEN [fdt |-> fdt, ret |-> USIZE_MAX]
        ELSE IF ~fdt[idx.val].used THEN [fdt |-> fdt, ret |-> USIZE_MAX]
        ELSE IF ~ft[fdt[idx.val].file_idx].used THEN [fdt |-> fdt, ret |-> USIZE_MAX]
        ELSE LET available == SaturatingSub(ft[fdt[idx.val].file_idx].len, fdt[idx.val].pos)
                 to_copy   == IF available < len THEN available ELSE len
             IN  IF available = 0 THEN [fdt |-> fdt, ret |-> 0]
                 ELSE IF buf.null THEN [fdt |-> fdt, ret |-> USIZE_MAX]
                 ELSE [fdt |-> [fdt EXCEPT ![idx.val].pos = @ + to_copy], ret |-> to_copy]

\* fs_close that reports success and leaves the entry open
FsCloseOp_KeepOpen(fdt, fd) ==
    LET idx == FdToIndex(fd)
    IN  IF ~idx.some THEN [fdt |-> fdt, ret |-> USIZE_MAX]
        ELSE IF ~fdt[idx.val].used THEN [fdt |-> fdt, ret |-> USIZE_MAX]
        ELSE [fdt |-> fdt, ret |-> 0]

\* fs_close(fd): 0, or usize::MAX
FsCloseOp(fdt, fd) ==
    LET idx == FdToIndex(fd)
    IN  IF ~idx.some THEN [fdt |-> fdt, ret |-> USIZE_MAX]
        ELSE IF ~fdt[idx.val].used THEN [fdt |-> fdt, ret |-> USIZE_MAX]
        ELSE [fdt |-> [fdt EXCEPT ![idx.val] = EmptyFd], ret |-> 0]

\* fs_write(fd, buf_ptr, len): bytes copied, or usize::MAX
FsWriteOp(ft, fdt, fd, buf, len) ==
    LET idx  == FdToIndex(fd)
        same == [ft |-> ft, fdt |-> fdt]
    IN  IF ~idx.some THEN same @@ [ret |-> USIZE_MAX]
        ELSE IF ~fdt[idx.val].used THEN same @@ [ret |-> USIZE_MAX]
        ELSE IF ~ft[fdt[idx.val].file_idx].used THEN same @@ [ret |-> USIZE_MAX]
        ELSE LET f       == fdt[idx.val].file_idx
                 pos     == fdt[idx.val].pos
                 space   == SaturatingSub(FILE_CAP, pos)
                 to_copy == IF space < len THEN space ELSE len
                 end     == pos + to_copy
             IN  IF space = 0 THEN same @@ [ret |-> 0]
                 ELSE IF buf.null \/ to_copy = 0 THEN same @@ [ret |-> 0]
                 ELSE [ft  |-> [ft EXCEPT ![f].data = CopyInto(@, pos, buf.bytes, to_copy),
                                          ![f].len = IF end > @ THEN end ELSE @],
                       fdt |-> [fdt EXCEPT ![idx.val].pos = end],
                       ret |-> to_copy]

---------------------------------------------------------------------------
(* The statics at boot *)

\* the statics of pit.rs, kb.rs, process.rs, vga.rs and fs.rs as the kernel
\* image holds them; no allocator call is in progress
StaticsInit ==
    /\ TICK_COUNT = 0
    /\ NEED_RESCHED = FALSE
    /\ SCANCODE_QUEUE = NewScancodeQueue
    /\ PROC_TABLE = NewProcessTable
    /\ proc_tid = [i \in 0..(MAX_PROCS - 1) |-> 0]
    /\ VGA_OUT = <<>>
    /\ pmm_call = <<>>
    /\ FsStatics

Init ==
    /\ \E total \in {1, MaxPool} : PMM = PmmInit(DemoBase, total)
    /\ fresh = TRUE
    /\ log = <<>>
    /\ freed_before = None
    /\ last = Call("init", 0, BoolRet(TRUE), TRUE)
    /\ TASK_TABLE = NewTaskTable
    /\ CURRENT = None
    /\ locks = [l \in LockNames |-> NoHolder]
    /\ running = BootCtx
    /\ ctx = [c \in Ctxs |-> IF c = BootCtx THEN Run ELSE NoTask]
    /\ stack_mem = << >>
    /\ owned = [i \in 0..(MAX_TASKS - 1) |-> {}]
    /\ StaticsInit

\* scheduler::spawn(entry, &PMM, pages), called by the running context
Spawn(entry, pages) ==
    /\ ctx[running].at = "run"
    /\ FindFreeSlot(TASK_TABLE).some => TASK_TABLE.next_tid <= MaxTid
    /\ UNCHANGED <<pvars, xvars, CURRENT, running, ivars>>
    /\ IF Held("TASK_TABLE")
       THEN /\ ctx' = [ctx EXCEPT ![running] = Spin("spawn", "TASK_TABLE")]
            /\ last' = CallSpawn(entry, pages, None, FALSE)
            /\ UNCHANGED <<PMM, TASK_TABLE, locks, stack_mem, owned>>
       ELSE LET r == SpawnOp(TASK_TABLE, PMM, entry, pages)
            IN  /\ TASK_TABLE' = r.tbl
                /\ PMM' = r.pmm
                /\ stack_mem' = WriteAll(stack_mem, r.writes)
                /\ owned' = IF r.ret.some
                            THEN [owned EXCEPT ![r.ret.val] =
                                     { r.addrs[k] : k \in 1..Len(r.addrs) }]
                            ELSE owned
                /\ ctx' = IF r.ret.some /\ r.ret.val # running
                          THEN [ctx EXCEPT ![r.ret.val] = NewCtx]
                          ELSE ctx
                /\ last' = CallSpawn(entry, pages, r.ret, TRUE)
                /\ UNCHANGED locks

\* scheduler::task_exit(slot, &PMM), called by the running context
TaskExit(slot) ==
    /\ ctx[running].at = "run"
    /\ UNCHANGED <<pvars, xvars, CURRENT, running, stack_mem, ivars>>
    /\ IF Held("TASK_TABLE")
       THEN /\ ctx' = [ctx EXCEPT ![running] = Spin("task_exit", "TASK_TABLE")]
            /\ last' = Call("task_exit", slot, BoolRet(FALSE), FALSE)
            /\ UNCHANGED <<PMM, TASK_TABLE, locks, owned>>
       ELSE LET r == TaskExitOp(TASK_TABLE, PMM, slot)
            IN  /\ TASK_TABLE' = r.tbl
                /\ PMM' = r.pmm
                /\ owned' = [owned EXCEPT ![slot] = {}]
                /\ last' = Call("task_exit", slot, BoolRet(TRUE), TRUE)
                /\ UNCHANGED <<ctx, locks>>

\* the body of scheduler::task_yield(), recorded as the call op(arg) that
\* returns st when task_yield returns and sw once a switch has resumed it
TaskYieldBody(op, arg, sw, st) ==
    /\ UNCHANGED <<pvars, PMM, CURRENT, stack_mem, owned>>
    /\ IF Held("CURRENT")
       THEN \* let cur_idx_opt = *CURRENT.lock();
            /\ ctx' = [ctx EXCEPT ![running] = Spin("task_yield", "CURRENT")]
            /\ last' = Call(op, arg, st, FALSE)
            /\ UNCHANGED <<TASK_TABLE, locks, running>>
       ELSE IF ~CURRENT.some
       THEN /\ last' = Call(op, arg, st, TRUE)
            /\ UNCHANGED <<TASK_TABLE, locks, running, ctx>>
       ELSE IF Held("TASK_TABLE")
       THEN /\ ctx' = [ctx EXCEPT ![running] = Spin("task_yield", "TASK_TABLE")]
            /\ last' = Call(op, arg, st, FALSE)
            /\ UNCHANGED <<TASK_TABLE, locks, running>>
       ELSE LET cur_idx == CURRENT.val
                tbl1    == [TASK_TABLE EXCEPT !.tasks[cur_idx].state = "Ready"]
                next    == YieldPick(tbl1, cur_idx)
            IN  IF next.some
                THEN \* the guard of TASK_TABLE is alive across context_switch
                     /\ TASK_TABLE' = [tbl1 EXCEPT !.tasks[next.val].state = "Running"]
                     /\ locks' = [locks EXCEPT !.TASK_TABLE = running]
                     /\ ContextSwitch("task_yield", next.val)
                     /\ last' = Call(op, arg, sw, FALSE)
                ELSE /\ TASK_TABLE' = [tbl1 EXCEPT !.tasks[cur_idx].state = "Running"]
                     /\ last' = Call(op, arg, st, TRUE)
                     /\ UNCHANGED <<locks, running, ctx>>

\* scheduler::task_yield(), called by the running context
TaskYield ==
    /\ ctx[running].at = "run"
    /\ TaskYieldBody("task_yield", 0, BoolRet(TRUE), BoolRet(FALSE))
    /\ UNCHANGED <<xvars, ivars>>

\* one scheduling decision: the body of schedule_loop's loop and of
\* schedule_tick. after is the caller's position when the decision ends without
\* a switch: back in the loop, or returned
ScheduleStep(fn, after) ==
    /\ UNCHANGED <<pvars, xvars, PMM, CURRENT, stack_mem, owned>>
    /\ IF Held("TASK_TABLE")
       THEN \* let table = TASK_TABLE.lock();
            /\ ctx' = [ctx EXCEPT ![running] = Spin(fn, "TASK_TABLE")]
            /\ last' = Call(fn, 0, BoolRet(FALSE), FALSE)
            /\ UNCHANGED <<TASK_TABLE, locks, running>>
       ELSE IF Held("CURRENT")
       THEN \* match *CURRENT.lock(), with TASK_TABLE locked by the block
            /\ ctx' = [ctx EXCEPT ![running] = Spin(fn, "CURRENT")]
            /\ locks' = [locks EXCEPT !.TASK_TABLE = running]
            /\ last' = Call(fn, 0, BoolRet(FALSE), FALSE)
            /\ UNCHANGED <<TASK_TABLE, running>>
       ELSE LET next == FindReadyFrom(TASK_TABLE, ScanStart(CURRENT))
            IN  IF ~next.some
                THEN /\ ctx' = [ctx EXCEPT ![running] = after]
                     /\ last' = Call(fn, 0, BoolRet(FALSE), TRUE)
                     /\ UNCHANGED <<TASK_TABLE, locks, running>>
                ELSE /\ TASK_TABLE' = [TASK_TABLE EXCEPT !.tasks[next.val].state = "Running"]
                     /\ IF CURRENT.some /\ CURRENT.val = next.val
                        THEN /\ ctx' = [ctx EXCEPT ![running] = after]
                             /\ last' = Call(fn, 0, BoolRet(FALSE), TRUE)
                             /\ UNCHANGED <<locks, running>>
                        ELSE \* both guards are alive across context_switch
                             /\ locks' = [locks EXCEPT !.TASK_TABLE = running,
                                                       !.CURRENT = running]
                             /\ ContextSwitch(fn, next.val)
                             /\ last' = Call(fn, 0, BoolRet(TRUE), FALSE)

\* scheduler::schedule_loop(), entered by the boot context; one iteration
ScheduleLoop ==
    /\ running = BootCtx
    /\ ctx[running].at \in {"run", "idle"}
    /\ ScheduleStep("schedule_loop", Idle)
    /\ UNCHANGED ivars

\* scheduler::schedule_tick(), called by the running context
ScheduleTick ==
    /\ ctx[running].at = "run"
    /\ ScheduleStep("schedule_tick", Run)
    /\ UNCHANGED ivars

Next ==
    \/ \E entry \in Entries, pages \in PageRequests : Spawn(entry, pages)
    \/ \E slot \in 0..(MAX_TASKS - 1) : TaskExit(slot)
    \/ TaskYield
    \/ ScheduleTick
    \/ ScheduleLoop

Spec == Init /\ [][Next]_vars

---------------------------------------------------------------------------
(* The allocator driven through its public interface *)

\* byte offsets inside a frame that callers pass: aligned, and the frame's last byte
Offsets == {0, FRAME_SIZE - 1}

\* addresses callers pass: every managed frame, and one frame on either side
Addrs(pmm) ==
    { f * FRAME_SIZE + o :
        f \in { g \in (pmm.base_frame - 1)..(pmm.base_frame + pmm.total_frames) : g >= 0 },
        o \in Offsets }

InitPmm ==
    /\ \E total \in 0..MaxFrames : PMM = PmmInit(DemoBase, total)
    /\ fresh = TRUE
    /\ log = <<>>
    /\ last = Call("init", 0, BoolRet(TRUE), TRUE)
    /\ freed_before = None
    /\ TASK_TABLE = NewTaskTable
    /\ CURRENT = None
    /\ locks = [l \in LockNames |-> NoHolder]
    /\ running = BootCtx
    /\ ctx = [c \in Ctxs |-> IF c = BootCtx THEN Run ELSE NoTask]
    /\ stack_mem = << >>
    /\ owned = [i \in 0..(MAX_TASKS - 1) |-> {}]
    /\ StaticsInit

CallMarkUsed(addr) ==
    LET r == MarkUsed(PMM, addr)
    IN  /\ PMM' = r.pmm
        /\ fresh' = FALSE
        /\ log' = <<>>
        /\ last' = Call("mark_used", addr, BoolRet(r.ret), TRUE)
        /\ UNCHANGED <<kvars, xvars>>
        /\ freed_before' = None

CallMarkFree(addr) ==
    LET r == MarkFree(PMM, addr)
    IN  /\ PMM' = r.pmm
        /\ fresh' = FALSE
        /\ log' = <<>>
        /\ last' = Call("mark_free", addr, BoolRet(r.ret), TRUE)
        /\ UNCHANGED <<kvars, xvars>>
        /\ freed_before' = None

CallFreeFrame(addr) ==
    LET r == FreeFrame(PMM, addr)
    IN  /\ PMM' = r.pmm
        /\ fresh' = FALSE
        /\ log' = <<>>
        /\ last' = Call("free_frame", addr, BoolRet(r.ret), TRUE)
        /\ UNCHANGED <<kvars, xvars>>
        /\ freed_before' = None

CallAllocFrame ==
    LET r == AllocFrame(PMM)
    IN  /\ fresh => Len(log) < PMM.total_frames + ExtraCalls
        /\ PMM' = r.pmm
        /\ fresh' = fresh
        /\ log' = IF fresh THEN Append(log, r.ret) ELSE log
        /\ last' = Call("alloc_frame", 0, r.ret, TRUE)
        /\ UNCHANGED <<kvars, xvars>>
        /\ freed_before' = IF last.op \in {"mark_free", "free_frame"} /\ last.ret.some
                           THEN Some((last.arg \div FRAME_SIZE) * FRAME_SIZE)
                           ELSE None

NextPmm ==
    \/ \E addr \in Addrs(PMM) : CallMarkUsed(addr)
    \/ \E addr \in Addrs(PMM) : CallMarkFree(addr)
    \/ \E addr \in Addrs(PMM) : CallFreeFrame(addr)
    \/ CallAllocFrame

SpecPmm == InitPmm /\ [][NextPmm]_vars

---------------------------------------------------------------------------
(* Properties of the allocator *)

\* indices of the managed frames
Managed(pmm) == 0..(pmm.total_frames - 1)

\* indices of the managed frames whose bit is set / clear
UsedIdx(pmm) == { i \in Managed(pmm) : BitSet(pmm.bitmap[i \div 8], i % 8) }
FreeIdx(pmm) == Managed(pmm) \ UsedIdx(pmm)

\* every set bit of the bitmap's bytes, padding bits of the last byte included
SetBits(pmm) ==
    { <<b, k>> \in (DOMAIN pmm.bitmap) \X (0..7) : BitSet(pmm.bitmap[b], k) }

\* address of managed frame i
AddrOf(pmm, i) == (pmm.base_frame + i) * FRAME_SIZE

\* index of the frame holding addr
IdxOf(pmm, addr) == (addr \div FRAME_SIZE) - pmm.base_frame

\* least element of a non-empty set of numbers
MinOf(S) == CHOOSE x \in S : \A y \in S : x <= y

\* the bitmap as the set of its used frames changed by exactly `used`, counter `free`
PmmIs(new, old, used, free) ==
    /\ UsedIdx(new) = used
    /\ SetBits(new) = { <<i \div 8, i % 8>> : i \in used }
    /\ new.free_frames = free
    /\ new.base_frame = old.base_frame
    /\ new.total_frames = old.total_frames

\* C1: after init and any sequence of mark_used, mark_free, alloc_frame and
\* free_frame calls, free_frames() plus the number of set bitmap bits equals
\* total_frames, and the free count is the number of clear bits among the
\* managed frames.
C1_FreeCountMatchesBitmap ==
    /\ PMM.free_frames + Cardinality(SetBits(PMM)) = PMM.total_frames
    /\ PMM.free_frames = Cardinality(FreeIdx(PMM))

\* a successful mark_free that leaves other frames in use, in a pool of two bytes
C1_Witness ==
    /\ last.op = "mark_free" /\ last.ret = BoolRet(TRUE)
    /\ PMM.total_frames > 8
    /\ PMM.free_frames < PMM.total_frames - 1
    /\ PMM.free_frames > 1

\* the log of a fresh pool: the i-th call returns the i-th frame, strictly
\* increasing and in range, and every call after total_frames returns None
C2_Fresh ==
    fresh =>
        /\ \A i \in 1..Len(log) :
              IF i <= PMM.total_frames
              THEN /\ log[i].some
                   /\ log[i].val >= PMM.base_frame * FRAME_SIZE
                   /\ log[i].val < (PMM.base_frame + PMM.total_frames) * FRAME_SIZE
              ELSE log[i] = None
        /\ \A i, j \in 1..Len(log) :
              (i < j /\ j <= PMM.total_frames) => log[i].val < log[j].val

\* one alloc_frame call: the lowest free frame is returned and marked used, or
\* None is returned and nothing changes when no frame is free
C2_Step ==
    last'.op = "alloc_frame" =>
        IF FreeIdx(PMM) = {}
        THEN last'.ret = None /\ PMM' = PMM
        ELSE LET i == MinOf(FreeIdx(PMM))
             IN  /\ last'.ret = Some(AddrOf(PMM, i))
                 /\ PmmIs(PMM', PMM, UsedIdx(PMM) \cup {i}, PMM.free_frames - 1)

\* C2: alloc_frame always returns the address of the lowest-numbered free
\* managed frame and marks it used; from a freshly initialised allocator
\* repeated calls return strictly increasing, distinct, in-range addresses
\* until all total_frames are handed out, and None from then on.
C2_AllocLowestFirst == [](C2_Fresh) /\ [][C2_Step]_vars

\* a fresh pool of more than one byte, exhausted, and one more call made
C2_Witness ==
    /\ fresh
    /\ PMM.total_frames > 8
    /\ Len(log) = PMM.total_frames + 1
    /\ last.op = "alloc_frame" /\ last.ret = None

\* one mark_used / mark_free / free_frame call
C3_Step ==
    LET addr == last'.arg
        i    == IdxOf(PMM, addr)
    IN  /\ last'.op = "mark_used" =>
              IF OutOfRange(PMM, addr) \/ i \in UsedIdx(PMM)
              THEN last'.ret = BoolRet(FALSE) /\ PMM' = PMM
              ELSE /\ last'.ret = BoolRet(TRUE)
                   /\ PmmIs(PMM', PMM, UsedIdx(PMM) \cup {i}, PMM.free_frames - 1)
        /\ last'.op \in {"mark_free", "free_frame"} =>
              IF OutOfRange(PMM, addr) \/ i \in FreeIdx(PMM)
              THEN last'.ret = BoolRet(FALSE) /\ PMM' = PMM
              ELSE /\ last'.ret = BoolRet(TRUE)
                   /\ PmmIs(PMM', PMM, UsedIdx(PMM) \ {i}, PMM.free_frames + 1)

\* C3: a rejected mark is a no-op: mark_free / free_frame on an address out of
\* range or already free returns false, mark_used on an address out of range
\* or already used returns false, and bitmap and free count are unchanged; an
\* accepted mark flips exactly that one bit and moves the free count by one.
C3_RejectedMarkIsNoOp == [][C3_Step]_vars

\* a free_frame of a managed frame that was already free, rejected, with other
\* frames in use
C3_Witness ==
    /\ last.op = "free_frame" /\ last.ret = BoolRet(FALSE)
    /\ ~OutOfRange(PMM, last.arg)
    /\ PMM.free_frames < PMM.total_frames

\* an alloc_frame call right after a successful free of frame F with every
\* lower-numbered frame in use returns F
C4_Step ==
    ( /\ last.op \in {"mark_free", "free_frame"} /\ last.ret = BoolRet(TRUE)
      /\ \A j \in Managed(PMM) : j < IdxOf(PMM, last.arg) => j \in UsedIdx(PMM)
      /\ last'.op = "alloc_frame" )
    => last'.ret = Some(AddrOf(PMM, IdxOf(PMM, last.arg)))

\* C4: allocate/free round trip: a frame F freed while every lower-numbered
\* managed frame is in use is what the next alloc_frame returns.
C4_RoundTrip == [][C4_Step]_vars

\* the pool is exhausted, its 3rd frame is freed, and the next alloc_frame
\* hands that frame out again
C4_Witness ==
    /\ last.op = "alloc_frame"
    /\ PMM.total_frames > 3
    /\ freed_before = Some(AddrOf(PMM, 2))
    /\ last.ret = freed_before
    /\ PMM.free_frames = 0

---------------------------------------------------------------------------
(* Properties of spawn and task_exit *)

Slots == 0..(MAX_TASKS - 1)

\* indices of the managed frames whose address lies in the stack range a task records
RangeIdx(pmm, t) ==
    { i \in Managed(pmm) :
        AddrOf(pmm, i) >= t.stack_base /\ AddrOf(pmm, i) < t.stack_base + t.stack_size }

\* indices of the frames alloc_stack obtained for the task in a slot
OwnedIdx(pmm, slot) == { IdxOf(pmm, a) : a \in owned[slot] }

Live(tbl) == { i \in Slots : tbl.tasks[i].state # "Finished" }

\* one spawn call asking for more pages than frames are free
C5_Step ==
    (last'.op = "spawn" /\ last'.arg > PMM.free_frames) =>
        /\ last'.done => last'.ret = None
        /\ PMM' = PMM

\* C5: a spawn whose pages argument exceeds the number of free frames returns
\* None, and free_frames() and the bitmap are afterwards as before the call.
C5_FailedSpawnLeaksNothing == [][C5_Step]_vars

\* spawn found a slot, obtained every free frame, failed on the next and
\* returned None with frames still free
C5_Witness ==
    /\ last.op = "spawn" /\ last.done /\ last.ret = None
    /\ last.arg > PMM.free_frames
    /\ last.arg <= STACK_ADDRS_LEN
    /\ PMM.free_frames > 1
    /\ PMM.free_frames < PMM.total_frames
    /\ FindFreeSlot(TASK_TABLE).some

\* one task_exit call on a slot holding a task that has not finished
C6_Step ==
    ( /\ last'.op = "task_exit" /\ last'.done
      /\ TASK_TABLE.tasks[last'.arg].state # "Finished" )
    => /\ UsedIdx(PMM') = UsedIdx(PMM) \ OwnedIdx(PMM, last'.arg)
       /\ PMM'.free_frames = PMM.free_frames + Cardinality(owned[last'.arg])

\* C6: in every allocator state, fragmented ones included, the exit of a
\* spawned task frees exactly the frames spawn allocated for it and no others.
C6_ExitFreesExactlyOwnFrames == [][C6_Step]_vars

\* C7: after any sequence of spawn and exit, every used frame lies in the
\* recorded stack range of exactly one non-Finished task, every frame of such
\* a range is used, and the ranges of distinct non-Finished tasks are disjoint.
C7_FrameOwnership ==
    /\ \A f \in UsedIdx(PMM) :
          Cardinality({ i \in Live(TASK_TABLE) : f \in RangeIdx(PMM, TASK_TABLE.tasks[i]) }) = 1
    /\ \A i \in Live(TASK_TABLE) : RangeIdx(PMM, TASK_TABLE.tasks[i]) \subseteq UsedIdx(PMM)
    /\ \A i, j \in Live(TASK_TABLE) :
          i # j => RangeIdx(PMM, TASK_TABLE.tasks[i]) \cap RangeIdx(PMM, TASK_TABLE.tasks[j]) = {}

\* one spawn call that returned None
C8_Step ==
    (last'.op = "spawn" /\ last'.done /\ last'.ret = None) =>
        /\ TASK_TABLE'.tasks = TASK_TABLE.tasks
        /\ stack_mem' = stack_mem
        /\ ctx' = ctx
        /\ \A i \in Live(TASK_TABLE) :
              /\ (RangeIdx(PMM, TASK_TABLE.tasks[i]) \cap UsedIdx(PMM)) \subseteq UsedIdx(PMM')
              /\ (OwnedIdx(PMM, i) \cap UsedIdx(PMM)) \subseteq UsedIdx(PMM')

\* C8: a failed spawn, for lack of frames or of a free slot, leaves every
\* existing task's state, saved context, stack_base and stack_size unchanged
\* and leaves their frames marked used.
C8_FailedSpawnLeavesTasks == [][C8_Step]_vars

\* a pool of 8 frames, two Ready tasks of 4 pages each, and a third spawn of 4
\* pages that returned None with a slot free
C8_Witness ==
    /\ PMM.total_frames = 8 /\ PMM.free_frames = 0
    /\ last.op = "spawn" /\ last.done /\ last.ret = None /\ last.arg = 4
    /\ Cardinality({ i \in Slots : /\ TASK_TABLE.tasks[i].state = "Ready"
                                   /\ TASK_TABLE.tasks[i].stack_size = 4 * FRAME_SIZE }) = 2
    /\ FindFreeSlot(TASK_TABLE).some

---------------------------------------------------------------------------
(* Properties of the scheduler *)

RunningSlots == { i \in Slots : TASK_TABLE.tasks[i].state = "Running" }

\* C9: in every reachable state, through any interleaving of schedule_loop,
\* schedule_tick, task_yield, spawn and task_exit, at most one slot of the
\* task table has state Running.
C9_AtMostOneRunning == Cardinality(RunningSlots) <= 1

\* a task was switched to, another task is Ready, and the running task has
\* called schedule_tick
C9_Witness ==
    /\ running # BootCtx
    /\ TASK_TABLE.tasks[running].state = "Running"
    /\ \E j \in Slots : TASK_TABLE.tasks[j].state = "Ready"
    /\ last.op = "schedule_tick"

\* no context_switch has been executed yet
NoSwitchYet == \A c \in Ctxs : ctx[c].at # "switched"

\* C10: CURRENT is None before the first switch, and from then on, whenever a
\* task executes its own code after being switched to, CURRENT is the index of
\* that task's slot.
C10_CurrentIsRunningTask ==
    /\ NoSwitchYet => CURRENT = None
    /\ (running # BootCtx /\ ctx[running].at = "run") => CURRENT = Some(running)

---------------------------------------------------------------------------
(* Properties of the locks *)

\* the locks a context holds
HeldBy(c) == { l \in LockNames : locks[l] = c }

\* C11: no lock is held by the switching context when context_switch is
\* invoked: a context suspended inside context_switch holds no lock, so the
\* task switched to never spins on one
C11_NoLockAcrossSwitch ==
    \A c \in Ctxs :
        /\ ctx[c].at = "switched" => HeldBy(c) = {}
        /\ ctx[c].at = "spin" => locks[ctx[c].lock] \notin
                                    { d \in Ctxs : ctx[d].at = "switched" }

---------------------------------------------------------------------------
(* Cooperative tasks: the boot context spawns tasks and enters schedule_loop;
   every task does nothing but call task_yield, again and again *)

BootStep ==
    /\ running = BootCtx
    /\ \/ \E entry \in Entries, pages \in 1..MaxPages : Spawn(entry, pages)
       \/ ScheduleLoop

TaskYields == running # BootCtx /\ TaskYield

NextYield == BootStep \/ TaskYields

\* the core keeps executing whatever context it is in
SpecYield == Init /\ [][NextYield]_vars /\ WF_vars(NextYield)

\* the task of slot i is executing its own code
RunsTask(i) == running = i /\ ctx[i].at = "run"

\* schedule_loop has started the first of exactly two tasks, in slots 0 and 1
StartedTwo ==
    /\ ctx[BootCtx] = Suspended("schedule_loop")
    /\ RunsTask(0)
    /\ TASK_TABLE.tasks[0].state = "Running"
    /\ TASK_TABLE.tasks[1].state = "Ready"
    /\ \A i \in 2..(MAX_TASKS - 1) : TASK_TABLE.tasks[i].state = "Finished"

\* C12: two Ready tasks started by schedule_loop that keep yielding alternate
\* strictly: a switch away from one of them goes to the other, and both run
\* infinitely often
C12_TwoTasksAlternate ==
    /\ [][(running \in {0, 1} /\ running' # running) => running' = 1 - running]_vars
    /\ [](StartedTwo => ([]<>RunsTask(0) /\ []<>RunsTask(1)))

---------------------------------------------------------------------------
(* The scheduler's operations applied to every table: CURRENT names the slot
   whose task is executing (or is None, the boot context executing), every
   other slot is free or holds a task spawned with a one-page stack *)

\* the live slots below slot i
LiveBelow(live, i) == { j \in live : j < i }

\* the record spawn leaves for the k-th task created, in slot i, its stack
\* the i-th frame of the pool
SpawnedTask(i, tid, state) ==
    LET stack_base == (DemoBase + i) * FRAME_SIZE
    IN  [tid |-> tid,
         rsp |-> PrepareStack("task_main", stack_base, FRAME_SIZE).sp,
         stack_base |-> stack_base, stack_size |-> FRAME_SIZE, state |-> state]

\* the pool with the stack frame of every live slot below i marked used
RECURSIVE PoolWith(_, _)
PoolWith(live, i) ==
    IF i = 0 THEN PmmInit(DemoBase, MaxPool)
    ELSE IF (i - 1) \in live
         THEN MarkUsed(PoolWith(live, i - 1), (DemoBase + i - 1) * FRAME_SIZE).pmm
         ELSE PoolWith(live, i - 1)

\* the stack words prepare_stack wrote for the live slots below i
RECURSIVE StacksOf(_, _)
StacksOf(live, i) ==
    IF i = 0 THEN << >>
    ELSE IF (i - 1) \in live
         THEN WriteAll(StacksOf(live, i - 1),
                       PrepareStack("task_main", (DemoBase + i - 1) * FRAME_SIZE,
                                    FRAME_SIZE).writes)
         ELSE StacksOf(live, i - 1)

SchedTables ==
    \E cur \in {None} \cup { Some(i) : i \in 0..(MAX_TASKS - 1) } :
    \E ready \in SUBSET (0..(MAX_TASKS - 1)) :
        LET live == ready \cup (IF cur.some THEN {cur.val} ELSE {})
        IN  /\ cur.some => cur.val \notin ready
            /\ TASK_TABLE =
                 [tasks |-> [i \in 0..(MAX_TASKS - 1) |->
                                IF i \notin live THEN EmptyTask
                                ELSE SpawnedTask(i, Cardinality(LiveBelow(live, i)) + 1,
                                                 IF i \in ready THEN "Ready" ELSE "Running")],
                  next_tid |-> IF Cardinality(live) < MaxTid THEN MaxTid
                               ELSE Cardinality(live) + 1]
            /\ CURRENT = cur
            /\ PMM = PoolWith(live, MAX_TASKS)
            /\ stack_mem = StacksOf(live, MAX_TASKS)
            /\ owned = [i \in 0..(MAX_TASKS - 1) |->
                          IF i \in live THEN {(DemoBase + i) * FRAME_SIZE} ELSE {}]
            /\ running = IF cur.some THEN cur.val ELSE BootCtx
            /\ ctx = [c \in Ctxs |->
                        IF c = BootCtx
                        THEN (IF cur.some THEN Suspended("schedule_loop") ELSE Run)
                        ELSE IF cur.some /\ c = cur.val THEN Run
                        ELSE IF c \in ready THEN NewCtx
                        ELSE NoTask]
            /\ locks = [l \in LockNames |-> NoHolder]
            /\ fresh = TRUE
            /\ log = <<>>
            /\ freed_before = None
            /\ last = Call("init", 0, BoolRet(TRUE), TRUE)

InitSched == SchedTables /\ StaticsInit

SpecSched == InitSched /\ [][Next]_vars

---------------------------------------------------------------------------
(* Properties of the scheduling decisions *)

\* the slots other than c that are Ready
OtherReady(tbl, c) ==
    { i \in 0..(MAX_TASKS - 1) : i # c /\ tbl.tasks[i].state = "Ready" }

\* the k-th slot after c in cyclic order
After(c, k) == (c + k) % MAX_TASKS

\* the first slot of S in the cyclic order c+1, c+2, ..., wrapping around
FirstAfter(S, c) ==
    After(c, CHOOSE k \in 1..MAX_TASKS :
                /\ After(c, k) \in S
                /\ \A m \in 1..(k - 1) : After(c, m) \notin S)

\* a step by which task_yield, called by the task of slot CURRENT, switches
YieldSwitches ==
    /\ last'.op = "task_yield"
    /\ CURRENT.some
    /\ running = CURRENT.val
    /\ running' # running

\* C13: task_yield called by the task in slot c, another task being Ready,
\* switches to the first Ready slot in the cyclic order c+1, c+2, ...
C13_Step ==
    YieldSwitches => running' = FirstAfter(OtherReady(TASK_TABLE, CURRENT.val), CURRENT.val)

NoLockHeld == \A l \in LockNames : ~Held(l)

\* C14: task_yield with no other task Ready performs no switch and returns
\* with the caller Running, CURRENT and every other task as they were; with
\* CURRENT None it changes nothing
C14_Step ==
    (last'.op = "task_yield" /\ NoLockHeld) =>
        /\ ~CURRENT.some =>
              /\ last'.done
              /\ UNCHANGED <<PMM, kvars, xvars>>
        /\ (CURRENT.some /\ OtherReady(TASK_TABLE, CURRENT.val) = {}) =>
              /\ last'.done
              /\ UNCHANGED <<PMM, CURRENT, locks, running, ctx, stack_mem>>
              /\ TASK_TABLE'.tasks[CURRENT.val].state = "Running"
              /\ \A i \in 0..(MAX_TASKS - 1) :
                    i # CURRENT.val => TASK_TABLE'.tasks[i] = TASK_TABLE.tasks[i]
              /\ TASK_TABLE'.next_tid = TASK_TABLE.next_tid

C14_LoneYieldReturns == [][C14_Step]_vars

\* a task has yielded with nobody else Ready and is running again, next to
\* the record of a task that has exited
C14_Witness ==
    /\ last.op = "task_yield"
    /\ last.done
    /\ CURRENT.some
    /\ RunsTask(CURRENT.val)
    /\ OtherReady(TASK_TABLE, CURRENT.val) = {}
    /\ TASK_TABLE.tasks[CURRENT.val].state = "Running"
    /\ \E i \in 0..(MAX_TASKS - 1) : i # CURRENT.val /\ TASK_TABLE.tasks[i].tid # 0

\* the Ready slots
ReadySlots(tbl) == { i \in 0..(MAX_TASKS - 1) : tbl.tasks[i].state = "Ready" }

\* the slot a round-robin decision selects: the first Ready one after CURRENT,
\* the current slot considered last; from slot 0 when CURRENT is None
RoundRobinPick(tbl, cur) ==
    FirstAfter(ReadySlots(tbl), IF cur.some THEN cur.val ELSE MAX_TASKS - 1)

\* one scheduling decision made by op: the first Ready slot scanning
\* cyclically from CURRENT + 1 (slot 0 when CURRENT is None) is marked Running
\* and switched to unless it is the current slot; with no Ready slot there is
\* no switch and no task changes
Decision(op) ==
    IF ReadySlots(TASK_TABLE) = {}
    THEN /\ last'.done
         /\ UNCHANGED <<PMM, TASK_TABLE, CURRENT, locks, running, stack_mem>>
         /\ ctx'[running].at = (IF op = "schedule_loop" THEN "idle" ELSE "run")
         /\ \A c \in Ctxs : c # running => ctx'[c] = ctx[c]
    ELSE LET pick == RoundRobinPick(TASK_TABLE, CURRENT)
         IN  /\ TASK_TABLE'.tasks[pick].state = "Running"
             /\ \A i \in 0..(MAX_TASKS - 1) :
                   i # pick => TASK_TABLE'.tasks[i] = TASK_TABLE.tasks[i]
             /\ IF CURRENT.some /\ CURRENT.val = pick
                THEN running' = running /\ last'.done
                ELSE running' = pick /\ ctx'[running] = Suspended(op)

\* C15: a decision of schedule_loop or schedule_tick selects the first Ready
\* slot scanning cyclically from CURRENT + 1 (slot 0 when CURRENT is None),
\* the current slot last; with no Ready slot it switches nowhere and changes
\* no task
C15_Step ==
    (last'.op \in {"schedule_loop", "schedule_tick"} /\ NoLockHeld) =>
        Decision(last'.op)

C15_DecisionIsRoundRobin == [][C15_Step]_vars

\* schedule_tick, called by the task of the last slot with Ready tasks in two
\* lower slots, has wrapped around and switched to slot 0
C15_Witness ==
    /\ last.op = "schedule_tick"
    /\ CURRENT = Some(MAX_TASKS - 1)
    /\ running = 0
    /\ ctx[MAX_TASKS - 1] = Suspended("schedule_tick")
    /\ TASK_TABLE.tasks[0].state = "Running"
    /\ TASK_TABLE.tasks[1].state = "Ready"

---------------------------------------------------------------------------
(* Properties of Finished tasks *)

\* C19: Finished is terminal: a slot leaves Finished only by spawn installing
\* a new task in it, and a scheduling decision never selects a Finished slot
C19_Step ==
    \A i \in 0..(MAX_TASKS - 1) :
        TASK_TABLE.tasks[i].state = "Finished" =>
            /\ TASK_TABLE'.tasks[i].state # "Finished" =>
                  (last'.op = "spawn" /\ last'.ret = Some(i))
            /\ running' # running => running' # i

C20_Step ==
    (/\ last'.op = "task_exit"
     /\ last'.done
     /\ TASK_TABLE.tasks[last'.arg].state = "Finished") =>
        /\ PMM' = PMM
        /\ TASK_TABLE' = TASK_TABLE

C20_ExitOfFinishedIsNoOp == [][C20_Step]_vars

---------------------------------------------------------------------------
(* Timer, keyboard interrupt and the checkpoint *)

\* the scancodes the keyboard controller delivers
Scancodes == {30, 31}

\* a tick that makes a scheduling decision itself
Tick_Switching ==
    /\ TICK_COUNT < MaxTicks
    /\ TICK_COUNT' = TICK_COUNT + 1
    /\ UNCHANGED <<NEED_RESCHED, SCANCODE_QUEUE, PROC_TABLE>>
    /\ ScheduleStep("tick", ctx[running])

\* pit::tick(): TICK_COUNT.fetch_add(1) + 1
Tick ==
    /\ TICK_COUNT < MaxTicks
    /\ TICK_COUNT' = TICK_COUNT + 1
    /\ last' = Call("tick", 0, Some(TICK_COUNT + 1), TRUE)
    /\ UNCHANGED <<PMM, pvars, xvars, TASK_TABLE, CURRENT, locks, running, ctx, stack_mem,
                   owned, NEED_RESCHED, SCANCODE_QUEUE, PROC_TABLE>>

\* interrupt::keyboard_interrupt, on the stack of the running context: read the
\* scancode from port 0x60, Kb::push_scancode (SCANCODE_QUEUE.lock().push(sc)),
\* send the end of interrupt. With the queue's mutex held by the interrupted
\* context the handler spins in lock() and the context below it never resumes.
\* A context halted in hlt() resumes when the handler returns
KeyboardInterrupt(sc) ==
    /\ ctx[running] # Spin("keyboard_interrupt", "SCANCODE_QUEUE")
    /\ IF Held("SCANCODE_QUEUE")
       THEN /\ ctx' = [ctx EXCEPT ![running] = Spin("keyboard_interrupt", "SCANCODE_QUEUE")]
            /\ last' = Call("keyboard_interrupt", sc, BoolRet(FALSE), FALSE)
            /\ UNCHANGED SCANCODE_QUEUE
       ELSE /\ SCANCODE_QUEUE' = QueuePush(SCANCODE_QUEUE, sc)
            /\ ctx' = [ctx EXCEPT ![running] = IF @ = Halted THEN Looping ELSE @]
            /\ last' = Call("keyboard_interrupt", sc, BoolRet(TRUE), TRUE)
    /\ UNCHANGED <<PMM, pvars, xvars, TASK_TABLE, CURRENT, locks, running, stack_mem,
                   owned, TICK_COUNT, NEED_RESCHED, PROC_TABLE>>

\* a checkpoint that reads the flag without clearing it
CheckAndSchedule_NoClear ==
    /\ ctx[running].at = "run"
    /\ UNCHANGED <<TICK_COUNT, SCANCODE_QUEUE, NEED_RESCHED>>
    /\ IF NEED_RESCHED
       THEN /\ PROC_TABLE' = WakeSleepers(PROC_TABLE, TICK_COUNT)
            /\ ScheduleStep("check_and_schedule", Run)
       ELSE /\ last' = Call("check_and_schedule", 0, BoolRet(FALSE), TRUE)
            /\ UNCHANGED <<PMM, pvars, xvars, TASK_TABLE, CURRENT, locks, running, ctx,
                           stack_mem, owned, PROC_TABLE>>

\* scheduler::check_and_schedule(), called by the running context:
\* NEED_RESCHED.swap(false), and if it was set tick_maintenance (wake_sleepers)
\* and schedule_tick
CheckAndSchedule ==
    /\ ctx[running].at = "run"
    /\ UNCHANGED <<TICK_COUNT, SCANCODE_QUEUE>>
    /\ NEED_RESCHED' = FALSE
    /\ IF ~NEED_RESCHED
       THEN /\ last' = Call("check_and_schedule", 0, BoolRet(FALSE), TRUE)
            /\ UNCHANGED <<PMM, pvars, xvars, TASK_TABLE, CURRENT, locks, running, ctx,
                           stack_mem, owned, PROC_TABLE>>
       ELSE IF Held("PROC_TABLE")
       THEN \* let mut table = PROC_TABLE.lock(); in wake_sleepers
            /\ ctx' = [ctx EXCEPT ![running] = Spin("check_and_schedule", "PROC_TABLE")]
            /\ last' = Call("check_and_schedule", 0, BoolRet(FALSE), FALSE)
            /\ UNCHANGED <<PMM, pvars, xvars, TASK_TABLE, CURRENT, locks, running,
                           stack_mem, owned, PROC_TABLE>>
       ELSE /\ PROC_TABLE' = WakeSleepers(PROC_TABLE, TICK_COUNT)
            /\ ScheduleStep("check_and_schedule", Run)

\* every table of the scheduler, with the reschedule flag as a checkpoint may
\* find it
InitIrq ==
    /\ SchedTables
    /\ TICK_COUNT = 0
    /\ NEED_RESCHED \in BOOLEAN
    /\ SCANCODE_QUEUE = NewScancodeQueue
    /\ PROC_TABLE = NewProcessTable
    /\ proc_tid = [i \in 0..(MAX_PROCS - 1) |-> 0]
    /\ VGA_OUT = <<>>
    /\ pmm_call = <<>>
    /\ FsStatics

NextIrq ==
    \/ Tick
    \/ \E sc \in Scancodes : KeyboardInterrupt(sc)
    \/ CheckAndSchedule
    \/ TaskYield
    \/ ScheduleLoop

SpecIrq == InitIrq /\ [][NextIrq]_vars

---------------------------------------------------------------------------
(* Properties of deferred preemption *)

\* C16: every tick increments the tick counter and sets the reschedule flag,
\* so that a check_and_schedule made right after a tick performs one
\* scheduling decision
C16_Step ==
    /\ last'.op = "tick" =>
          (TICK_COUNT' = TICK_COUNT + 1 /\ NEED_RESCHED' = TRUE)
    /\ (last.op = "tick" /\ last'.op = "check_and_schedule" /\ NoLockHeld) =>
          Decision("check_and_schedule")

C16_TickRequestsReschedule == [][C16_Step]_vars

\* C17: check_and_schedule tests and clears the flag in one step: found
\* clear, it switches nowhere and changes no task, process or CURRENT; found
\* set, it leaves the flag clear and makes one scheduling decision
C17_Step ==
    last'.op = "check_and_schedule" =>
        /\ NEED_RESCHED' = FALSE
        /\ ~NEED_RESCHED =>
              /\ last'.done
              /\ UNCHANGED <<PMM, TASK_TABLE, CURRENT, PROC_TABLE, locks, running, ctx,
                             stack_mem, TICK_COUNT>>
        /\ (NEED_RESCHED /\ NoLockHeld) =>
              /\ Decision("check_and_schedule")
              /\ TICK_COUNT' = TICK_COUNT

C17_CheckpointTestsAndClears == [][C17_Step]_vars

\* a checkpoint found the flag set, cleared it and switched to another task
C17_Witness ==
    /\ last.op = "check_and_schedule"
    /\ ~NEED_RESCHED
    /\ \E c \in Ctxs : ctx[c] = Suspended("check_and_schedule")
    /\ RunsTask(running)

\* C18: an interrupt handler only updates its counter or queue and returns;
\* every context switch is made by schedule_loop, task_yield, schedule_tick or
\* check_and_schedule
C18_Step ==
    /\ last'.op \in {"tick", "keyboard_interrupt"} =>
          UNCHANGED <<PMM, TASK_TABLE, CURRENT, PROC_TABLE, locks, running, ctx,
                      stack_mem, NEED_RESCHED>>
    /\ (running' # running \/ ctx' # ctx) =>
          last'.op \in {"schedule_loop", "task_yield", "schedule_tick",
                        "check_and_schedule"}

C18_NoSwitchInInterrupt == [][C18_Step]_vars

\* the keyboard handler has queued a scancode while a task switched to by
\* task_yield or a checkpoint was executing, and a tick has been counted
C18_Witness ==
    /\ last.op = "keyboard_interrupt"
    /\ SCANCODE_QUEUE.head # SCANCODE_QUEUE.tail
    /\ TICK_COUNT > 0
    /\ RunsTask(running)
    /\ \E c \in Ctxs : ctx[c].at = "switched" /\ ctx[c].fn \in {"task_yield", "check_and_schedule"}

---------------------------------------------------------------------------
(* The first resume of a spawned task *)

\* the slots whose prepared stack of at least one frame no context_switch has
\* loaded yet
Prepared == { i \in Slots : ctx[i].at = "new" /\ TASK_TABLE.tasks[i].stack_size > 0 }

\* the addresses context_switch reads from a stack loaded at rsp: one word per
\* popped register, then the word ret takes
RestoreAddrs(rsp) == { WrappingAdd(rsp, k * WORD_SIZE) : k \in 0..RESTORED_REGS }

\* C21: the stack prepare_stack built for a task spawned with one page or
\* more holds, from the recorded stack pointer upward, one zero word per
\* register context_switch pops and then the address of an entry function,
\* all of them inside the task's stack range
C21_PreparedStackMatchesRestore ==
    \A i \in Prepared :
        LET t == TASK_TABLE.tasks[i]
        IN  /\ \A k \in 0..(RESTORED_REGS - 1) :
                  LET a == WrappingAdd(t.rsp, k * WORD_SIZE)
                  IN  a \in DOMAIN stack_mem /\ stack_mem[a] = IntWord(0)
            /\ LET r == WrappingAdd(t.rsp, RESTORED_REGS * WORD_SIZE)
               IN  r \in DOMAIN stack_mem /\ stack_mem[r].code \in Entries
            /\ \A a \in RestoreAddrs(t.rsp) :
                  t.stack_base <= a /\ a + WORD_SIZE <= t.stack_base + t.stack_size

---------------------------------------------------------------------------
(* process.rs: the operations, called by the running context *)

\* an Option or bool result as dispatch returns it: the value, 0 for true,
\* -1 for None and false
Isize(r) == Some(IF r.some THEN r.val ELSE -1)

\* the stack sizes callers of process::spawn ask for
ProcPages == {1, 2}
\* the parents they name
Parents == {None}
\* the pids callers of exit_self and sleep_ms pass
Pids == 0..MaxPid
\* the durations callers of sleep_ms pass
SleepTimes == {0, 1, U64_MAX}

\* the body of process::spawn(entry, pages, parent), recorded in rec, its
\* result shaped by sys for a caller through dispatch
ProcSpawnBody(rec, sys, entry, pages, parent) ==
    LET R(r) == IF sys THEN Isize(r) ELSE r
    IN
    /\ UNCHANGED <<pvars, CURRENT, running, TICK_COUNT, NEED_RESCHED, SCANCODE_QUEUE,
                   VGA_OUT, pmm_call, fsvars>>
    /\ IF Held("TASK_TABLE")
       THEN \* scheduler::spawn: let mut table = TASK_TABLE.lock();
            /\ ctx' = [ctx EXCEPT ![running] = Spin("spawn", "TASK_TABLE")]
            /\ last' = [rec EXCEPT !.ret = R(None), !.done = FALSE]
            /\ UNCHANGED <<PMM, TASK_TABLE, locks, stack_mem, owned, PROC_TABLE, proc_tid>>
       ELSE LET r    == SpawnOp(TASK_TABLE, PMM, entry, pages)
                mem1 == WriteAll(stack_mem, r.writes)
                own1 == IF r.ret.some
                        THEN [owned EXCEPT ![r.ret.val] =
                                 { r.addrs[k] : k \in 1..Len(r.addrs) }]
                        ELSE owned
                ctx1 == IF r.ret.some /\ r.ret.val # running
                        THEN [ctx EXCEPT ![r.ret.val] = NewCtx]
                        ELSE ctx
            IN  /\ stack_mem' = mem1
                /\ IF ~r.ret.some
                   THEN /\ TASK_TABLE' = r.tbl
                        /\ PMM' = r.pmm
                        /\ last' = [rec EXCEPT !.ret = R(None), !.done = TRUE]
                        /\ UNCHANGED <<ctx, locks, owned, PROC_TABLE, proc_tid>>
                   ELSE IF Held("PROC_TABLE")
                   THEN \* let mut table = PROC_TABLE.lock();
                        /\ TASK_TABLE' = r.tbl
                        /\ PMM' = r.pmm
                        /\ owned' = own1
                        /\ ctx' = [ctx1 EXCEPT ![running] = Spin("spawn", "PROC_TABLE")]
                        /\ last' = [rec EXCEPT !.ret = R(None), !.done = FALSE]
                        /\ UNCHANGED <<locks, PROC_TABLE, proc_tid>>
                   ELSE LET pt_slot == AllocSlot(PROC_TABLE)
                            pid     == PROC_TABLE.next_pid
                        IN  IF pt_slot.some
                            THEN /\ TASK_TABLE' = r.tbl
                                 /\ PMM' = r.pmm
                                 /\ owned' = own1
                                 /\ ctx' = ctx1
                                 /\ PROC_TABLE' =
                                       [PROC_TABLE EXCEPT
                                          !.procs[pt_slot.val] =
                                              NewProcess(pid, r.ret.val, pages, parent),
                                          !.next_pid = pid + 1]
                                 /\ proc_tid' = [proc_tid EXCEPT ![pt_slot.val] =
                                                    r.tbl.tasks[r.ret.val].tid]
                                 /\ last' = [rec EXCEPT !.ret = R(Some(pid)), !.done = TRUE]
                                 /\ UNCHANGED locks
                            ELSE \* scheduler::task_exit(slot, &PMM)
                                 LET x == TaskExitOp(r.tbl, r.pmm, r.ret.val)
                                 IN  /\ TASK_TABLE' = x.tbl
                                     /\ PMM' = x.pmm
                                     /\ owned' = [own1 EXCEPT ![r.ret.val] = {}]
                                     /\ ctx' = ctx1
                                     /\ last' = [rec EXCEPT !.ret = R(None), !.done = TRUE]
                                     /\ UNCHANGED <<locks, PROC_TABLE, proc_tid>>

\* process::spawn(entry, pages, parent)
ProcSpawn(entry, pages, parent) ==
    /\ ctx[running].at = "run"
    /\ PROC_TABLE.next_pid <= MaxPid
    /\ FindFreeSlot(TASK_TABLE).some => TASK_TABLE.next_tid <= MaxTid
    /\ ProcSpawnBody([op |-> "process_spawn", arg |-> pages, entry |-> entry,
                      ret |-> None, done |-> TRUE], FALSE, entry, pages, parent)

\* the body of process::exit_self(pid)
ExitSelfBody(rec, sys, pid) ==
    LET R(b) == IF sys THEN Some(IF b THEN 0 ELSE -1) ELSE BoolRet(b)
    IN
    /\ UNCHANGED <<pvars, CURRENT, running, stack_mem, TICK_COUNT, NEED_RESCHED,
                   SCANCODE_QUEUE, proc_tid, VGA_OUT, pmm_call, fsvars>>
    /\ IF Held("PROC_TABLE")
       THEN \* let mut table = PROC_TABLE.lock();
            /\ ctx' = [ctx EXCEPT ![running] = Spin("exit_self", "PROC_TABLE")]
            /\ last' = [rec EXCEPT !.ret = R(FALSE), !.done = FALSE]
            /\ UNCHANGED <<PMM, TASK_TABLE, locks, owned, PROC_TABLE>>
       ELSE LET i == FindPid(PROC_TABLE, pid)
            IN  IF ~i.some
                THEN /\ last' = [rec EXCEPT !.ret = R(FALSE), !.done = TRUE]
                     /\ UNCHANGED <<PMM, TASK_TABLE, locks, owned, PROC_TABLE, ctx>>
                ELSE LET slot == PROC_TABLE.procs[i.val].slot
                     IN  /\ PROC_TABLE' = [PROC_TABLE EXCEPT
                                              !.procs[i.val].state = "Zombie",
                                              !.procs[i.val].until = 0]
                         /\ IF Held("TASK_TABLE")
                            THEN \* task_exit spins with the PROC_TABLE guard alive
                                 /\ locks' = [locks EXCEPT !.PROC_TABLE = running]
                                 /\ ctx' = [ctx EXCEPT ![running] =
                                               Spin("task_exit", "TASK_TABLE")]
                                 /\ last' = [rec EXCEPT !.ret = R(FALSE), !.done = FALSE]
                                 /\ UNCHANGED <<PMM, TASK_TABLE, owned>>
                            ELSE LET x == TaskExitOp(TASK_TABLE, PMM, slot)
                                 IN  /\ TASK_TABLE' = x.tbl
                                     /\ PMM' = x.pmm
                                     /\ owned' = [owned EXCEPT ![slot] = {}]
                                     /\ last' = [rec EXCEPT !.ret = R(TRUE), !.done = TRUE]
                                     /\ UNCHANGED <<locks, ctx>>

\* process::exit_self(pid)
ExitSelf(pid) ==
    /\ ctx[running].at = "run"
    /\ ExitSelfBody(Call("exit_self", pid, BoolRet(FALSE), TRUE), FALSE, pid)

\* process::sleep_ms(pid, ms): read pit::ticks(), then lock the table
SleepMs(pid, ms) ==
    /\ ctx[running].at = "run"
    /\ UNCHANGED <<PMM, pvars, TASK_TABLE, CURRENT, locks, running, stack_mem, owned,
                   TICK_COUNT, NEED_RESCHED, SCANCODE_QUEUE, xvars>>
    /\ IF Held("PROC_TABLE")
       THEN /\ ctx' = [ctx EXCEPT ![running] = Spin("sleep_ms", "PROC_TABLE")]
            /\ last' = Call("sleep_ms", pid, Some(ms), FALSE)
            /\ UNCHANGED PROC_TABLE
       ELSE /\ PROC_TABLE' = SleepMsOp(PROC_TABLE, pid, TICK_COUNT, ms)
            /\ last' = Call("sleep_ms", pid, Some(ms), TRUE)
            /\ UNCHANGED ctx

\* process::wake_sleepers(), called directly; the record of the call keeps the
\* number of entries it changed
WakeSleepersCall ==
    /\ ctx[running].at = "run"
    /\ UNCHANGED <<PMM, pvars, TASK_TABLE, CURRENT, locks, running, stack_mem, owned,
                   TICK_COUNT, NEED_RESCHED, SCANCODE_QUEUE, xvars>>
    /\ IF Held("PROC_TABLE")
       THEN /\ ctx' = [ctx EXCEPT ![running] = Spin("wake_sleepers", "PROC_TABLE")]
            /\ last' = Call("wake_sleepers", TICK_COUNT, BoolRet(FALSE), FALSE)
            /\ UNCHANGED PROC_TABLE
       ELSE /\ PROC_TABLE' = WakeSleepers(PROC_TABLE, TICK_COUNT)
            /\ last' = Call("wake_sleepers", TICK_COUNT,
                            Some(Cardinality({ i \in 0..(MAX_PROCS - 1) :
                                    PROC_TABLE'.procs[i] # PROC_TABLE.procs[i] })), TRUE)
            /\ UNCHANGED ctx

\* the kernel from boot with its processes created and torn down:
\* process::spawn, exit_self, sleep_ms and schedule_loop
NextProc ==
    \/ \E entry \in Entries, pages \in ProcPages, parent \in Parents :
          ProcSpawn(entry, pages, parent)
    \/ \E pid \in Pids : ExitSelf(pid)
    \/ \E pid \in Pids, ms \in SleepTimes : SleepMs(pid, ms)
    \/ ScheduleLoop

SpecProc == Init /\ [][NextProc]_vars

\* the kernel from boot with its processes sleeping and waking: process::spawn
\* with one page of stack, sleep_ms, wake_sleepers, the tick, the checkpoint and
\* schedule_loop
NextSleep ==
    \/ \E entry \in Entries, parent \in Parents : ProcSpawn(entry, 1, parent)
    \/ \E pid \in Pids, ms \in SleepTimes : SleepMs(pid, ms)
    \/ WakeSleepersCall
    \/ Tick
    \/ CheckAndSchedule
    \/ ScheduleLoop

SpecSleep == Init /\ [][NextSleep]_vars

\* the boot context spawning processes, putting them to sleep and reaching
\* checkpoints, under a timer: the timer keeps ticking and the context keeps
\* reaching checkpoints
NextWake ==
    \/ \E entry \in Entries, parent \in Parents : ProcSpawn(entry, 1, parent)
    \/ \E pid \in Pids, ms \in SleepTimes : SleepMs(pid, ms)
    \/ Tick
    \/ CheckAndSchedule

SpecWake ==
    Init /\ [][NextWake]_vars /\ WF_vars(Tick) /\ WF_vars(CheckAndSchedule)

---------------------------------------------------------------------------
(* Sleeping and waking *)

Procs == 0..(MAX_PROCS - 1)

\* a sleep_ms call has just returned
SleepReturns == last'.op = "sleep_ms" /\ last'.done
\* a direct wake_sleepers call has just returned
WakeReturns == last'.op = "wake_sleepers" /\ last'.done

\* C22: sleep_ms(pid, ms) called at tick T leaves the process with that pid
\* Sleeping until T + ms, or until u64::MAX when the sum passes it; a
\* wake_sleepers call at a tick before the wake tick leaves a Sleeping process as
\* it is, and one at or after the wake tick makes it Runnable
C22_Step ==
    /\ SleepReturns =>
          \A i \in Procs :
              (FindPid(PROC_TABLE, last'.arg) = Some(i)) =>
                  /\ PROC_TABLE'.procs[i].state = "Sleeping"
                  /\ PROC_TABLE'.procs[i].until =
                        (IF last'.ret.val >= U64_MAX - TICK_COUNT
                         THEN U64_MAX ELSE TICK_COUNT + last'.ret.val)
    /\ WakeReturns =>
          \A i \in Procs :
              PROC_TABLE.procs[i].state = "Sleeping" =>
                  IF TICK_COUNT < PROC_TABLE.procs[i].until
                  THEN PROC_TABLE'.procs[i] = PROC_TABLE.procs[i]
                  ELSE PROC_TABLE'.procs[i].state = "Runnable"
C22_SleepThenWake == [][C22_Step]_vars

\* a wake_sleepers call made after the first tick has passed by a process that
\* sleeps until a later tick
C22_Witness ==
    /\ last.op = "wake_sleepers" /\ last.done /\ last.arg >= 1
    /\ \E i \in Procs :
          /\ PROC_TABLE.procs[i].pid >= 1
          /\ PROC_TABLE.procs[i].state = "Sleeping"
          /\ PROC_TABLE.procs[i].until > last.arg
          /\ PROC_TABLE.procs[i].until < U64_MAX

\* the process entries spawn recorded for the task now in slot i that are
\* Sleeping in table pt, their wake tick still ahead
SleepersOn(pt, i) ==
    { p \in Procs :
        /\ pt.procs[p].state = "Sleeping"
        /\ pt.procs[p].until > TICK_COUNT
        /\ pt.procs[p].slot = i
        /\ pt.procs[p].pid >= 1
        /\ proc_tid[p] = TASK_TABLE.tasks[i].tid }

\* the slots a scheduling decision of this step has selected
Selected ==
    { i \in Slots :
        /\ last'.op \in {"schedule_loop", "schedule_tick", "check_and_schedule",
                         "task_yield"}
        /\ i # running
        /\ TASK_TABLE.tasks[i].state # "Running"
        /\ TASK_TABLE'.tasks[i].state = "Running" }

\* C23: no scheduling decision selects the slot of a task that is off the
\* processor while its process is Sleeping, wake_sleepers not having made it
\* Runnable yet
C23_Step == \A i \in Selected : SleepersOn(PROC_TABLE', i) = {}
C23_SleepingIsNotScheduled == [][C23_Step]_vars

\* process entry p sleeps until a tick the timer reaches
SleepsUntilReached(p) ==
    /\ PROC_TABLE.procs[p].state = "Sleeping"
    /\ PROC_TABLE.procs[p].pid >= 1
    /\ PROC_TABLE.procs[p].until <= MaxTicks

\* C24: with the timer ticking and the running context reaching checkpoints
\* again and again, a process that sleep_ms put to sleep until a tick the
\* timer reaches does not stay Sleeping: a checkpoint's wake_sleepers makes it
\* Runnable
C24_SleepersWake ==
    \A p \in Procs : SleepsUntilReached(p) ~> (PROC_TABLE.procs[p].state = "Runnable")

---------------------------------------------------------------------------
(* Processes and their tasks *)

\* a process::spawn call has just returned, having found the task table and
\* the allocator able to create its task and no Zombie entry in the process table
SpawnIntoFullTable ==
    /\ last'.op = "process_spawn" /\ last'.done
    /\ SpawnOp(TASK_TABLE, PMM, last'.entry, last'.arg).ret.some
    /\ ~AllocSlot(PROC_TABLE).some

\* C25: a process::spawn that creates its task and finds no Zombie entry
\* returns None and leaves the task table's occupancy, the set of used frames
\* and free_frames() as they were before the call
C25_Step ==
    SpawnIntoFullTable =>
        /\ last'.ret = None
        /\ Live(TASK_TABLE') = Live(TASK_TABLE)
        /\ UsedIdx(PMM') = UsedIdx(PMM)
        /\ PMM'.free_frames = PMM.free_frames
        /\ PROC_TABLE' = PROC_TABLE
C25_FullTableSpawnIsUndone == [][C25_Step]_vars

\* the process entries that are not Zombie
Alive == { p \in Procs : PROC_TABLE.procs[p].state # "Zombie" }

\* C26: no two process entries that are not Zombie refer to the same task
\* slot, and the slot of each holds a task that is not Finished and is the one
\* its spawn created
C26_ProcessesAndTasksOneToOne ==
    /\ \A p, q \in Alive :
          PROC_TABLE.procs[p].slot = PROC_TABLE.procs[q].slot => p = q
    /\ \A p \in Alive :
          LET t == TASK_TABLE.tasks[PROC_TABLE.procs[p].slot]
          IN  t.state # "Finished" /\ t.tid = proc_tid[p]

---------------------------------------------------------------------------
(* syscall.rs: dispatch *)

SYS_EXIT == 0
SYS_WRITE == 1
SYS_GETPID == 2
SYS_SPAWN == 3
SYS_YIELD == 4
SYS_SLEEP_MS == 5

\* a 64-bit argument word, as its upper and its lower 32 bits
Word(hi, lo) == [hi |-> hi, lo |-> lo]
\* arg0 as u32: the lower 32 bits
AsU32(w) == w.lo
\* arg0 == 0
IsZero(w) == w.hi = 0 /\ w.lo = 0

\* the memory of the calling task that write requests point into: the bytes
\* of "hi" followed by the two bytes of U+00E9
UserBase == 8192
UserMem == (UserBase :> 104) @@ (UserBase + 1 :> 105) @@ (UserBase + 2 :> 195)
           @@ (UserBase + 3 :> 169)

\* core::slice::from_raw_parts(buf_ptr, len)
Slice(ptr, len) == [k \in 1..len |-> UserMem[ptr + k - 1]]

\* str::from_utf8(..).is_ok(), for one-byte and two-byte sequences
RECURSIVE Utf8(_)
Utf8(bytes) ==
    IF bytes = <<>> THEN TRUE
    ELSE IF bytes[1] < 128 THEN Utf8(Tail(bytes))
    ELSE IF bytes[1] >= 194 /\ bytes[1] <= 223
    THEN /\ Len(bytes) >= 2
         /\ bytes[2] >= 128 /\ bytes[2] <= 191
         /\ Utf8(Tail(Tail(bytes)))
    ELSE FALSE

Min(a, b) == IF a < b THEN a ELSE b

\* a write arm that prints whatever the descriptor is
SysWriteOp_AnyFd(fd, buf_ptr, len) ==
    IF buf_ptr = 0 \/ len = 0 THEN [ret |-> 0, out |-> <<>>]
    ELSE [ret |-> len, out |-> <<Slice(buf_ptr, len)>>]

\* the SYS_WRITE arm: its result and the lines it prints
SysWriteOp(fd, buf_ptr, len) ==
    IF fd # 1 THEN [ret |-> -1, out |-> <<>>]
    ELSE IF buf_ptr = 0 \/ len = 0 THEN [ret |-> 0, out |-> <<>>]
    ELSE LET slice == Slice(buf_ptr, len)
             take  == Min(len, OUT_LEN)
         IN  IF Utf8(slice) THEN [ret |-> len, out |-> <<slice>>]
             ELSE IF Utf8(SubSeq(slice, 1, take))
             THEN [ret |-> len, out |-> <<SubSeq(slice, 1, take)>>]
             ELSE [ret |-> len, out |-> <<>>]

\* a match that takes the call number modulo 6, so that 6 and 7 reach arms
SysArm_Wrapping(sysno) ==
    CASE sysno % 6 = SYS_EXIT -> "exit"
      [] sysno % 6 = SYS_WRITE -> "write"
      [] sysno % 6 = SYS_GETPID -> "getpid"
      [] sysno % 6 = SYS_SPAWN -> "spawn"
      [] sysno % 6 = SYS_YIELD -> "yield"
      [] OTHER -> "sleep_ms"

\* match sysno: the arm dispatch takes
SysArm(sysno) ==
    CASE sysno = SYS_EXIT -> "exit"
      [] sysno = SYS_WRITE -> "write"
      [] sysno = SYS_GETPID -> "getpid"
      [] sysno = SYS_SPAWN -> "spawn"
      [] sysno = SYS_YIELD -> "yield"
      [] sysno = SYS_SLEEP_MS -> "sleep_ms"
      [] OTHER -> "default"

\* the address of the entry function task_main
TaskMainAddr == 4096
\* transmute(entry_fn): the function at this address
EntryAt(w) == IF w = Word(0, TaskMainAddr) THEN "task_main" ELSE "wild"

\* process::current_pid() cannot take its locks: CURRENT in current_index, or
\* PROC_TABLE once CURRENT holds a slot
PidLock ==
    IF Held("CURRENT") THEN "CURRENT"
    ELSE IF CURRENT.some /\ Held("PROC_TABLE") THEN "PROC_TABLE"
    ELSE "none"

\* dispatch spinning inside current_pid
PidSpin(rec) ==
    /\ ctx' = [ctx EXCEPT ![running] = Spin("current_pid", PidLock)]
    /\ last' = [rec EXCEPT !.done = FALSE]
    /\ UNCHANGED <<PMM, pvars, xvars, TASK_TABLE, CURRENT, locks, running, stack_mem,
                   owned, ivars>>

\* dispatch returning r with nothing touched
SysReturn(rec, r) ==
    /\ last' = [rec EXCEPT !.ret = Some(r)]
    /\ UNCHANGED <<PMM, pvars, xvars, kvars>>

\* syscall::dispatch(sysno, arg0, arg1, arg2), called by the running context
Dispatch(sysno, arg0, arg1, arg2) ==
    LET rec == Call("dispatch", sysno, Some(-1), TRUE)
        arm == SysArm(sysno)
    IN
    /\ ctx[running].at = "run"
    /\ CASE arm = "exit" ->
              ExitSelfBody(rec, TRUE, AsU32(arg0))
         [] arm = "write" ->
              LET w == SysWriteOp(AsU32(arg0), arg1, arg2)
              IN  /\ Len(VGA_OUT) + Len(w.out) <= MaxOut
                  /\ VGA_OUT' = VGA_OUT \o w.out
                  /\ last' = [rec EXCEPT !.ret = Some(w.ret)]
                  /\ UNCHANGED <<PMM, pvars, kvars, proc_tid, pmm_call, fsvars>>
         [] arm = "getpid" ->
              IF PidLock # "none" THEN PidSpin(rec)
              ELSE SysReturn(rec, Isize(CurrentPidOf(PROC_TABLE, CURRENT)).val)
         [] arm = "spawn" ->
              IF IsZero(arg0) THEN SysReturn(rec, -1)
              ELSE IF PidLock # "none" THEN PidSpin(rec)
              ELSE /\ PROC_TABLE.next_pid <= MaxPid
                   /\ FindFreeSlot(TASK_TABLE).some => TASK_TABLE.next_tid <= MaxTid
                   /\ ProcSpawnBody(rec, TRUE, EntryAt(arg0), arg1,
                                    CurrentPidOf(PROC_TABLE, CURRENT))
         [] arm = "yield" ->
              /\ TaskYieldBody("dispatch", sysno, Some(0), Some(0))
              /\ UNCHANGED <<xvars, ivars>>
         [] arm = "sleep_ms" ->
              IF PidLock # "none" THEN PidSpin(rec)
              ELSE IF Held("PROC_TABLE")
              THEN \* let mut table = PROC_TABLE.lock(); in sleep_ms
                   /\ ctx' = [ctx EXCEPT ![running] = Spin("sleep_ms", "PROC_TABLE")]
                   /\ last' = [rec EXCEPT !.done = FALSE]
                   /\ UNCHANGED <<PMM, pvars, xvars, TASK_TABLE, CURRENT, locks, running,
                                  stack_mem, owned, ivars>>
              ELSE LET cp  == CurrentPidOf(PROC_TABLE, CURRENT)
                       pid == IF cp.some THEN cp.val ELSE 0
                   IN  /\ PROC_TABLE' = SleepMsOp(PROC_TABLE, pid, TICK_COUNT, arg0.lo)
                       /\ TaskYieldBody("dispatch", sysno, Some(0), Some(0))
                       /\ UNCHANGED <<xvars, TICK_COUNT, NEED_RESCHED, SCANCODE_QUEUE>>
         [] OTHER -> SysReturn(rec, -1)

\* the buffers callers of write pass: null, empty, "hi", "hi" with half a
\* character, and half a character
Buffers ==
    {<<0, 0>>, <<0, 1>>, <<UserBase, 0>>, <<UserBase, 2>>, <<UserBase, 3>>,
     <<UserBase + 2, 1>>}

\* the argument words callers pass where dispatch truncates arg0 to 32 bits
Words == { Word(hi, lo) : hi \in {0, 1}, lo \in 0..2 }

\* call numbers past the defined ones
UndefinedCalls == {6, 7}

\* the calls tasks make: every defined call with arguments of its kind, and
\* the undefined ones
SysCalls ==
    { <<sysno, a0, 0, 0>> : sysno \in {SYS_EXIT}, a0 \in Words } \cup
    { <<sysno, a0, b[1], b[2]>> : sysno \in {SYS_WRITE}, a0 \in Words, b \in Buffers } \cup
    { <<sysno, a0, b[1], b[2]>> : sysno \in UndefinedCalls, a0 \in Words,
                                  b \in {<<0, 0>>, <<UserBase, 2>>} } \cup
    { <<sysno, Word(0, 0), 0, 0>> : sysno \in {SYS_GETPID, SYS_YIELD} } \cup
    { <<SYS_SPAWN, a0, 1, 0>> : a0 \in {Word(0, 0), Word(0, TaskMainAddr)} } \cup
    { <<SYS_SLEEP_MS, Word(0, 1), 0, 0>> }

---------------------------------------------------------------------------
(* userland/src/main.rs, userland.rs: the requests of a user program *)

USER_SYS_WRITE == 0
USER_SYS_EXIT == 1

\* sys_write(ptr, len) / write(s): rax = SYS_WRITE, rdi = ptr, rsi = len,
\* int 0x80; rdx is 0 in userland.rs and left as it is in main.rs. The request
\* reaches dispatch with rax as the call number and rdi, rsi, rdx as arguments
UserSysWrite(ptr, len) ==
    \E rdx \in {0, 1} : Dispatch(USER_SYS_WRITE, Word(0, ptr), len, rdx)

\* sys_exit(code) / exit(code): rax = SYS_EXIT, rdi = code, int 0x80
UserSysExit(code) == Dispatch(USER_SYS_EXIT, Word(0, code), 0, 0)

\* the strings a user program writes
UserStrings == { b \in Buffers : b[1] # 0 /\ b[2] > 0 }
\* the codes it exits with
ExitCodes == {0, 1}

\* the kernel from boot with tasks calling dispatch and user programs making
\* their requests
NextSys ==
    \/ \E c \in SysCalls : Dispatch(c[1], c[2], c[3], c[4])
    \/ \E b \in UserStrings : UserSysWrite(b[1], b[2])
    \/ \E code \in ExitCodes : UserSysExit(code)
    \/ ScheduleLoop

SpecSys == Init /\ [][NextSys]_vars

---------------------------------------------------------------------------
(* Properties of the syscall boundary *)

\* nothing of the kernel but the record of the call has changed
KernelUntouched == UNCHANGED <<PMM, pvars, xvars, kvars>>

\* the write calls with a descriptor other than 1
OtherFdWrites == { c \in SysCalls : c[1] = SYS_WRITE /\ AsU32(c[2]) # 1 }

\* C27: a write call whose descriptor is not 1 returns a negative result,
\* prints nothing and changes no kernel state, whatever buffer and length it
\* is given: a step either has these three effects or is no call of
\* dispatch's write arm with such a descriptor
C27_Step ==
    \/ /\ last'.done /\ last'.ret.val < 0
       /\ VGA_OUT' = VGA_OUT
       /\ KernelUntouched
    \/ last'.op # "dispatch" \/ last'.arg # SYS_WRITE
    \/ ~(\E c \in OtherFdWrites : Dispatch(c[1], c[2], c[3], c[4]))
C27_WriteToOtherFdFails == [][C27_Step]_vars

\* a write to another descriptor has failed on a console that an earlier
\* write to descriptor 1 has printed on
C27_Witness ==
    /\ last.op = "dispatch" /\ last.arg = SYS_WRITE /\ last.done
    /\ last.ret = Some(-1)
    /\ Len(VGA_OUT) = 1

\* the calls with a number outside the defined ones
UnknownCalls == { c \in SysCalls : c[1] \in UndefinedCalls }

\* C28: dispatch with a call number outside the defined ones returns -1 and
\* changes no task, process, allocator, scheduler or console state, whatever
\* its arguments: a step either has these effects or is no call of dispatch
\* with such a number
C28_Step ==
    \/ /\ last'.done /\ last'.ret = Some(-1)
       /\ KernelUntouched
    \/ last'.op # "dispatch" \/ last'.arg \notin UndefinedCalls
    \/ ~(\E c \in UnknownCalls : Dispatch(c[1], c[2], c[3], c[4]))
C28_UnknownCallIsRejected == [][C28_Step]_vars

\* an undefined call has been rejected in a kernel with a live process
C28_Witness ==
    /\ last.op = "dispatch" /\ last.arg \in UndefinedCalls /\ last.done
    /\ last.ret = Some(-1)
    /\ \E p \in Procs : PROC_TABLE.procs[p].state = "Runnable" /\ PROC_TABLE.procs[p].pid >= 1

\* C29: a write request of a user program is handled by dispatch's write arm
\* and an exit request by its exit arm
C29_Step ==
    /\ \A b \in UserStrings :
          UserSysWrite(b[1], b[2]) => SysArm(last'.arg) = "write"
    /\ \A code \in ExitCodes :
          UserSysExit(code) => SysArm(last'.arg) = "exit"
C29_UserRequestsReachTheirArms == [][C29_Step]_vars

---------------------------------------------------------------------------
(* memory.rs: the allocator called from two cores at once *)

\* the cores calling into the one PhysicalMemoryManager
Cores == {0, 1}

\* a core that is in no allocator call
NoCall == [op |-> "none", arg |-> 0, ret |-> None, pc |-> "idle"]

\* a core inside mark_used, mark_free or alloc_frame: it holds self.lock, it has
\* written the bitmap byte, and its fetch_sub / fetch_add is still to come
Pending(op, arg, ret) == [op |-> op, arg |-> arg, ret |-> ret, pc |-> "counter"]

\* ptr::write_volatile(p, ...): the bitmap of the completed operation, with the
\* counter as it stood
BitmapWritten(pmm, done) == [done EXCEPT !.free_frames = pmm.free_frames]

\* let _g = self.lock.lock(): a core waits while the other core holds the lock
PmmLockFree == locks["PMM"] = NoHolder

\* an allocator call of core c up to its write of the bitmap. r is the outcome of
\* the whole operation. A call that returns before the write (out of range, bit
\* already as wanted, no free frame) is over in this step and drops the guard
PmmBegin(c, op, arg, r, locking) ==
    /\ pmm_call[c].pc = "idle"
    /\ locking => PmmLockFree
    /\ IF r.pmm = PMM
       THEN /\ UNCHANGED <<PMM, locks, pmm_call>>
            /\ last' = Call(op, arg, r.ret, TRUE)
       ELSE /\ PMM' = BitmapWritten(PMM, r.pmm)
            /\ locks' = [locks EXCEPT !["PMM"] = c]
            /\ pmm_call' = [pmm_call EXCEPT ![c] = Pending(op, arg, r.ret)]
            /\ last' = Call(op, arg, r.ret, FALSE)
    /\ fresh' = FALSE
    /\ UNCHANGED <<log, freed_before, proc_tid, VGA_OUT, fsvars>>
    /\ UNCHANGED <<TASK_TABLE, CURRENT, running, ctx, stack_mem, owned, ivars>>

\* mark_used: range test, lock, test and set the bit
ConcMarkUsed(c, addr) ==
    LET r == MarkUsed(PMM, addr)
    IN  PmmBegin(c, "mark_used", addr, [pmm |-> r.pmm, ret |-> BoolRet(r.ret)],
                 ~OutOfRange(PMM, addr))

\* mark_free (and free_frame, which is mark_free): range test, lock, test and
\* clear the bit
ConcMarkFree(c, addr) ==
    LET r == MarkFree(PMM, addr)
    IN  PmmBegin(c, "mark_free", addr, [pmm |-> r.pmm, ret |-> BoolRet(r.ret)],
                 ~OutOfRange(PMM, addr))

\* alloc_frame: lock, scan, set the first clear bit
ConcAllocFrame(c) == PmmBegin(c, "alloc_frame", 0, AllocFrame(PMM), TRUE)

\* self.free_frames.fetch_sub(1) / fetch_add(1), then the return, which drops _g
ConcCounter(c) ==
    /\ pmm_call[c].pc = "counter"
    /\ PMM' = [PMM EXCEPT !.free_frames = IF pmm_call[c].op = "mark_free"
                                          THEN FetchAdd1(@) ELSE FetchSub1(@)]
    /\ locks' = [locks EXCEPT !["PMM"] = NoHolder]
    /\ pmm_call' = [pmm_call EXCEPT ![c] = NoCall]
    /\ last' = Call(pmm_call[c].op, pmm_call[c].arg, pmm_call[c].ret, TRUE)
    /\ fresh' = FALSE
    /\ UNCHANGED <<log, freed_before, proc_tid, VGA_OUT, fsvars>>
    /\ UNCHANGED <<TASK_TABLE, CURRENT, running, ctx, stack_mem, owned, ivars>>

\* free_frames(): one atomic load, self.lock not taken
ConcFreeFrames(c) ==
    /\ pmm_call[c].pc = "idle"
    /\ last' = Call("free_frames", c, Some(PMM.free_frames), TRUE)
    /\ fresh' = FALSE
    /\ UNCHANGED <<PMM, log, freed_before, xvars, kvars>>

\* is_used(addr): one volatile read of the bitmap byte, self.lock not taken
ConcIsUsed(c, addr) ==
    /\ pmm_call[c].pc = "idle"
    /\ last' = Call("is_used", addr, BoolRet(IsUsed(PMM, addr)), TRUE)
    /\ fresh' = FALSE
    /\ UNCHANGED <<PMM, log, freed_before, xvars, kvars>>

\* a pool after init, no core in a call
InitConc ==
    /\ \E total \in 0..ConcFrames : PMM = PmmInit(DemoBase, total)
    /\ fresh = TRUE
    /\ log = <<>>
    /\ last = Call("init", 0, BoolRet(TRUE), TRUE)
    /\ freed_before = None
    /\ TASK_TABLE = NewTaskTable
    /\ CURRENT = None
    /\ locks = [l \in LockNames |-> NoHolder]
    /\ running = BootCtx
    /\ ctx = [c \in Ctxs |-> IF c = BootCtx THEN Run ELSE NoTask]
    /\ stack_mem = << >>
    /\ owned = [i \in 0..(MAX_TASKS - 1) |-> {}]
    /\ TICK_COUNT = 0
    /\ NEED_RESCHED = FALSE
    /\ SCANCODE_QUEUE = NewScancodeQueue
    /\ PROC_TABLE = NewProcessTable
    /\ proc_tid = [i \in 0..(MAX_PROCS - 1) |-> 0]
    /\ VGA_OUT = <<>>
    /\ pmm_call = [c \in Cores |-> NoCall]
    /\ FsStatics

NextConc ==
    \/ \E c \in Cores, addr \in Addrs(PMM) : ConcMarkUsed(c, addr)
    \/ \E c \in Cores, addr \in Addrs(PMM) : ConcMarkFree(c, addr)
    \/ \E c \in Cores : ConcAllocFrame(c)
    \/ \E c \in Cores : ConcCounter(c)
    \/ \E c \in Cores : ConcFreeFrames(c)
    \/ \E c \in Cores, addr \in Addrs(PMM) : ConcIsUsed(c, addr)

SpecConc == InitConc /\ [][NextConc]_vars

\* C30: under any interleaving of concurrent allocator calls, the bitmap write
\* and the counter update of one operation are a single atomic step: whenever a
\* core's free_frames() or is_used() runs, the counter it can read equals the
\* number of clear bits of the managed frames.
C30_Step ==
    (last'.op \in {"free_frames", "is_used"} /\ last'.done /\ PMM' = PMM)
        => PMM.free_frames = Cardinality(FreeIdx(PMM))

C30_ObserversSeeCounterMatchBitmap == [][C30_Step]_vars

---------------------------------------------------------------------------
(* kb.rs: the line reader under keyboard interrupts *)

\* Kb::read_scancode_blocking, first half of an iteration: SCANCODE_QUEUE.lock().
\* The guard is a temporary of the `if let` and lives until the pop is done
ReadScancodeLock ==
    /\ ctx[running].at \in {"run", "loop"}
    /\ IF Held("SCANCODE_QUEUE")
       THEN /\ ctx' = [ctx EXCEPT ![running] = Spin("read_scancode_blocking", "SCANCODE_QUEUE")]
            /\ UNCHANGED locks
       ELSE /\ ctx' = [ctx EXCEPT ![running] = QueueLocked]
            /\ locks' = [locks EXCEPT !["SCANCODE_QUEUE"] = running]
    /\ last' = Call("read_scancode_blocking", 0, None, FALSE)
    /\ UNCHANGED <<PMM, pvars, xvars, TASK_TABLE, CURRENT, running, stack_mem, owned, ivars>>

\* Kb::read_scancode_blocking, second half: pop() under the guard, then the
\* guard is dropped; Some(sc) returns sc, None goes to hlt()
ReadScancodePop ==
    /\ ctx[running] = QueueLocked
    /\ LET r == QueuePop(SCANCODE_QUEUE)
       IN  /\ SCANCODE_QUEUE' = r.q
           /\ locks' = [locks EXCEPT !["SCANCODE_QUEUE"] = NoHolder]
           /\ ctx' = [ctx EXCEPT ![running] = IF r.ret.some THEN Run ELSE Halted]
           /\ last' = Call("read_scancode_blocking", 0, r.ret, r.ret.some)
    /\ UNCHANGED <<PMM, pvars, xvars, TASK_TABLE, CURRENT, running, stack_mem, owned,
                   TICK_COUNT, NEED_RESCHED, PROC_TABLE>>

\* the boot context reads scancodes while the keyboard and the timer interrupt it
NextKb ==
    \/ ReadScancodeLock
    \/ ReadScancodePop
    \/ \E sc \in Scancodes : KeyboardInterrupt(sc)
    \/ Tick

SpecKb == Init /\ [][NextKb]_vars

\* C31: an interrupt handler (timer tick, keyboard) takes none of the Task
\* Store, Current, process-table and allocator locks, and runs to completion
\* whatever lock the interrupted context holds, the scancode queue's included:
\* every handler step has returned and left the locks and the interrupted
\* context's position as they were (a halted context resumes).
C31_Step ==
    last'.op \in {"tick", "keyboard_interrupt"} =>
        /\ last'.done
        /\ locks' = locks
        /\ \A c \in Ctxs : ctx'[c] = ctx[c] \/ (ctx[c] = Halted /\ ctx'[c] = Looping)

C31_HandlersRunToCompletion == [][C31_Step]_vars

\* the scancodes the ring holds, oldest first: buf[tail], ..., buf[head - 1]
Queued(q) ==
    [i \in 1..((q.head + BUF_SIZE - q.tail) % BUF_SIZE) |-> q.buf[(q.tail + i - 1) % BUF_SIZE]]

\* C39: the scancode queue is a bounded FIFO: a push is accepted at the back
\* while fewer than BUF_SIZE - 1 scancodes are queued and is otherwise dropped
\* leaving the queue as it was; a pop returns the oldest accepted scancode and
\* removes it; a pop of an empty queue returns None and leaves head and tail.
C39_Step ==
    /\ Len(Queued(SCANCODE_QUEUE')) <= BUF_SIZE - 1
    /\ (last'.op = "keyboard_interrupt" /\ last'.done) =>
          IF Len(Queued(SCANCODE_QUEUE)) < BUF_SIZE - 1
          THEN Queued(SCANCODE_QUEUE') = Append(Queued(SCANCODE_QUEUE), last'.arg)
          ELSE SCANCODE_QUEUE' = SCANCODE_QUEUE
    /\ (last'.op = "read_scancode_blocking" /\ ctx[running] = QueueLocked) =>
          IF Queued(SCANCODE_QUEUE) = <<>>
          THEN last'.ret = None /\ SCANCODE_QUEUE' = SCANCODE_QUEUE
          ELSE /\ last'.ret = Some(Head(Queued(SCANCODE_QUEUE)))
               /\ Queued(SCANCODE_QUEUE') = Tail(Queued(SCANCODE_QUEUE))

C39_QueueIsBoundedFifo == [][C39_Step]_vars

\* a pop has returned the older of two different scancodes, the younger still
\* queued in a ring whose head has wrapped around
C39_Witness ==
    /\ last.op = "read_scancode_blocking" /\ last.done
    /\ Len(Queued(SCANCODE_QUEUE)) >= 1
    /\ Queued(SCANCODE_QUEUE)[1] # last.ret.val
    /\ SCANCODE_QUEUE.head < SCANCODE_QUEUE.tail

---------------------------------------------------------------------------
(* Properties of the process table's operations *)

\* C32: wake_sleepers changes only the entries that are Sleeping with a wake
\* tick at or before the current tick, and only their state, to Runnable; it
\* leaves every other entry, the task table, CURRENT, the allocator and the
\* running context as they are: it switches nothing.
C32_Step ==
    last'.op = "wake_sleepers" =>
        /\ \A i \in Procs :
              IF /\ last'.done
                 /\ PROC_TABLE.procs[i].state = "Sleeping"
                 /\ PROC_TABLE.procs[i].until <= TICK_COUNT
              THEN PROC_TABLE'.procs[i] =
                      [PROC_TABLE.procs[i] EXCEPT !.state = "Runnable", !.until = 0]
              ELSE PROC_TABLE'.procs[i] = PROC_TABLE.procs[i]
        /\ PROC_TABLE'.next_pid = PROC_TABLE.next_pid
        /\ UNCHANGED <<TASK_TABLE, CURRENT, PMM, running, stack_mem, locks>>

C32_WakeChangesOnlyDueSleepers == [][C32_Step]_vars

\* a wake_sleepers call has returned with one process woken by it and another
\* still asleep
C32_Witness ==
    /\ last.op = "wake_sleepers" /\ last.done /\ last.ret.val = 1
    /\ \E i, j \in Procs :
          /\ PROC_TABLE.procs[i].pid >= 1 /\ PROC_TABLE.procs[i].state = "Runnable"
          /\ PROC_TABLE.procs[j].pid >= 1 /\ PROC_TABLE.procs[j].state = "Sleeping"
          /\ PROC_TABLE.procs[j].until > TICK_COUNT

\* the entries of the process with this pid that is not a Zombie
LiveWith(pid) ==
    { i \in Procs : PROC_TABLE.procs[i].pid = pid /\ PROC_TABLE.procs[i].state # "Zombie" }

\* C33: exit_self(pid) for the pid of a live process makes that process Zombie
\* and its task Finished, frees the task's stack frames and returns true; for
\* pid 0, a pid never issued or the pid of a Zombie it returns false and changes
\* no process, no task and nothing in the allocator.
C33_Step ==
    (last'.op = "exit_self" /\ last'.done) =>
        IF LiveWith(last'.arg) # {}
        THEN /\ last'.ret = BoolRet(TRUE)
             /\ \E i \in LiveWith(last'.arg) :
                   /\ PROC_TABLE'.procs[i].state = "Zombie"
                   /\ TASK_TABLE'.tasks[PROC_TABLE.procs[i].slot].state = "Finished"
                   /\ \A a \in owned[PROC_TABLE.procs[i].slot] : ~IsUsed(PMM', a)
        ELSE /\ last'.ret = BoolRet(FALSE)
             /\ UNCHANGED <<PROC_TABLE, TASK_TABLE, PMM>>

C33_ExitOfLiveAndOfDeadPid == [][C33_Step]_vars

---------------------------------------------------------------------------
(* Properties of spawn's bookkeeping *)

\* C34: task ids are strictly increasing in spawn order and never reused: the
\* counter never goes back, every id in the table lies below it, and an id
\* written into a slot (a reused slot included, failed spawns in between
\* included) is at or above the counter as it stood, hence above every id
\* handed out before.
C34_Step ==
    /\ TASK_TABLE'.next_tid >= TASK_TABLE.next_tid
    /\ \A s \in Slots : TASK_TABLE'.tasks[s].tid < TASK_TABLE'.next_tid
    /\ \A s \in Slots :
          TASK_TABLE'.tasks[s].tid # TASK_TABLE.tasks[s].tid =>
              TASK_TABLE'.tasks[s].tid >= TASK_TABLE.next_tid
    /\ \A s, t \in Slots :
          (s # t /\ TASK_TABLE'.tasks[s].tid # 0) =>
              TASK_TABLE'.tasks[s].tid # TASK_TABLE'.tasks[t].tid

C34_TaskIdsNeverReused == [][C34_Step]_vars

\* a spawn has put its task into slot 0 for the second time: slot 1 was filled
\* while slot 0 held the first task
C34_Witness ==
    /\ last.op = "spawn" /\ last.done /\ last.ret = Some(0)
    /\ TASK_TABLE.tasks[0].tid = 3
    /\ TASK_TABLE.tasks[1].tid = 2

\* C35: spawn takes a slot only if its state is Finished: a slot holding a Ready
\* or Running task is as it was after any spawn; with every slot holding such a
\* task spawn returns None, takes no tid and allocates no frame (bitmap and
\* free count unchanged).
C35_Step ==
    (last'.op = "spawn" /\ last'.done) =>
        /\ \A s \in Slots :
              TASK_TABLE.tasks[s].state # "Finished" =>
                  /\ TASK_TABLE'.tasks[s] = TASK_TABLE.tasks[s]
                  /\ last'.ret # Some(s)
        /\ last'.ret.some => TASK_TABLE.tasks[last'.ret.val].state = "Finished"
        /\ (\A s \in Slots : TASK_TABLE.tasks[s].state # "Finished") =>
              /\ last'.ret = None
              /\ TASK_TABLE' = TASK_TABLE
              /\ PMM' = PMM

C35_SpawnTakesOnlyFinishedSlots == [][C35_Step]_vars

\* a spawn asking for a page has returned None with every slot taken and frames
\* still free
C35_Witness ==
    /\ last.op = "spawn" /\ last.done /\ last.ret = None /\ last.arg >= 1
    /\ \A s \in Slots : TASK_TABLE.tasks[s].state \in {"Ready", "Running"}
    /\ PMM.free_frames >= last.arg

---------------------------------------------------------------------------
(* Fairness among more than two cooperative tasks *)

\* schedule_loop has started the first of MAX_TASKS tasks, one in every slot
StartedAll ==
    /\ ctx[BootCtx] = Suspended("schedule_loop")
    /\ RunsTask(0)
    /\ \A i \in Slots : TASK_TABLE.tasks[i].state \in {"Ready", "Running"}

\* C36: with three or more Ready tasks that all keep calling task_yield, every
\* task is scheduled infinitely often: none is skipped for ever.
C36_EveryYieldingTaskRunsAgain ==
    [](StartedAll => \A i \in Slots : []<>RunsTask(i))

---------------------------------------------------------------------------
(* The stack of a spawned task *)

\* the frame an address lies in
FrameOf(a) == (a \div FRAME_SIZE) * FRAME_SIZE

\* C37: every task spawn records as Ready has a stack of at least one frame
\* and a saved stack pointer inside it, and the words prepare_stack wrote (at
\* rsp and above it) lie in frames allocated for that task; a spawn with
\* pages = 0 creates no such task.
C37_Step ==
    (last'.op = "spawn" /\ last'.done /\ last'.ret.some) =>
        LET t == TASK_TABLE'.tasks[last'.ret.val]
        IN  /\ t.state = "Ready"
            /\ t.stack_size >= FRAME_SIZE
            /\ t.stack_base <= t.rsp
            /\ t.rsp < t.stack_base + t.stack_size
            /\ \A a \in {t.rsp, t.rsp + WORD_SIZE} : FrameOf(a) \in owned'[last'.ret.val]

C37_SpawnedStackIsInsideItsFrames == [][C37_Step]_vars

---------------------------------------------------------------------------
(* Dead process entries *)

\* C38: an entry that is Zombie (one never used included) changes only when
\* process spawn takes it for a new process: no sleep_ms, wake_sleepers or
\* exit_self, with pid 0 or any other pid, makes it Sleeping or Runnable.
C38_Step ==
    \A i \in Procs :
        (PROC_TABLE.procs[i].state = "Zombie" /\ PROC_TABLE'.procs[i] # PROC_TABLE.procs[i]) =>
            /\ last'.op = "process_spawn"
            /\ PROC_TABLE'.procs[i].state = "Runnable"
            /\ PROC_TABLE'.procs[i].pid = PROC_TABLE.next_pid

C38_ZombieStaysDead == [][C38_Step]_vars

---------------------------------------------------------------------------
(* fs.rs: the file store called by the running context. Each call takes and
   drops the FILE_TABLE and FD_TABLE guards inside itself; no interrupt
   handler and no other context touches them *)

\* the names callers pass: the name fs_init gives its file, another that fits,
\* and one that fills MAX_NAME
FileNames == {<<82>>, <<97>>, [j \in 1..MAX_NAME |-> 97]}

\* the buffers callers of fs_write pass: null, and one byte more than a file
\* holds
WriteBufs ==
    { <<NullPtr, 2>>, <<Buf([j \in 1..(FILE_CAP + 1) |-> 120]), FILE_CAP + 1>> }

\* the buffers callers of fs_read pass: null, and room for a whole file
ReadBufs == { <<NullPtr, 2>>, <<Buf([j \in 1..(FILE_CAP + 1) |-> 0]), FILE_CAP + 1>> }

\* the initial contents callers of fs_create pass: none, and one byte
CreateBufs == { <<NullPtr, 0>>, <<Buf(<<120>>), 1>> }

\* the descriptors callers pass: below FD_BASE, every entry, and one past the table
FdArgs == (FD_BASE - 1)..(FD_BASE + MAX_FDS)

\* what a file-store call leaves alone besides the two tables
FsFrame == UNCHANGED <<PMM, pvars, kvars, proc_tid, VGA_OUT, pmm_call>>

FsInit ==
    /\ ctx[running].at = "run"
    /\ FILE_TABLE' = FsInitOp(FILE_TABLE, INIT_FLAG)
    /\ INIT_FLAG' = TRUE
    /\ last' = Call("fs_init", 0, BoolRet(TRUE), TRUE)
    /\ UNCHANGED FD_TABLE
    /\ FsFrame

FsCreate(name, b) ==
    LET r == FsCreateOp(FILE_TABLE, Buf(name), b[1], b[2])
    IN  /\ ctx[running].at = "run"
        /\ FILE_TABLE' = r.ft
        /\ last' = Call("fs_create", Len(name), Some(r.ret), TRUE)
        /\ UNCHANGED <<FD_TABLE, INIT_FLAG>>
        /\ FsFrame

FsOpen(name) ==
    LET r == FsOpenOp(FILE_TABLE, FD_TABLE, name)
    IN  /\ ctx[running].at = "run"
        /\ FD_TABLE' = r.fdt
        /\ last' = Call("fs_open", Len(name.bytes), Some(r.ret), TRUE)
        /\ UNCHANGED <<FILE_TABLE, INIT_FLAG>>
        /\ FsFrame

FsRead(fd, b) ==
    LET r == FsReadOp(FILE_TABLE, FD_TABLE, fd, b[1], b[2])
    IN  /\ ctx[running].at = "run"
        /\ FD_TABLE' = r.fdt
        /\ last' = Call("fs_read", fd, Some(r.ret), TRUE)
        /\ UNCHANGED <<FILE_TABLE, INIT_FLAG>>
        /\ FsFrame

FsWrite(fd, b) ==
    LET r == FsWriteOp(FILE_TABLE, FD_TABLE, fd, b[1], b[2])
    IN  /\ ctx[running].at = "run"
        /\ FILE_TABLE' = r.ft
        /\ FD_TABLE' = r.fdt
        /\ last' = Call("fs_write", fd, Some(r.ret), TRUE)
        /\ UNCHANGED INIT_FLAG
        /\ FsFrame

FsClose(fd) ==
    LET r == FsCloseOp(FD_TABLE, fd)
    IN  /\ ctx[running].at = "run"
        /\ FD_TABLE' = r.fdt
        /\ last' = Call("fs_close", fd, Some(r.ret), TRUE)
        /\ UNCHANGED <<FILE_TABLE, INIT_FLAG>>
        /\ FsFrame

NextFs ==
    \/ FsInit
    \/ \E name \in FileNames, b \in CreateBufs : FsCreate(name, b)
    \/ \E name \in FileNames : FsOpen(Buf(name))
    \/ FsOpen(NullPtr)
    \/ \E fd \in FdArgs, b \in ReadBufs : FsRead(fd, b)
    \/ \E fd \in FdArgs, b \in WriteBufs : FsWrite(fd, b)
    \/ \E fd \in FdArgs : FsClose(fd)

\* the kernel after boot with its largest pool
InitFs == Init /\ PMM.total_frames = MaxPool

SpecFs == InitFs /\ [][NextFs]_vars

\* the descriptors that are open
OpenFds(fdt) == { i + FD_BASE : i \in { k \in DOMAIN fdt : fdt[k].used } }

\* C40: a descriptor fs_open returns is at least FD_BASE and was not open; a
\* descriptor becomes open only by fs_open returning it, and a successful
\* fs_close closes it; fs_read, fs_write and fs_close on a descriptor that is
\* not open return usize::MAX and change no file and no descriptor; the
\* position of an open descriptor never exceeds FILE_CAP.
C40_Step ==
    /\ (last'.op = "fs_open" /\ last'.ret.val # USIZE_MAX) =>
          /\ last'.ret.val >= FD_BASE
          /\ last'.ret.val \notin OpenFds(FD_TABLE)
          /\ OpenFds(FD_TABLE') = OpenFds(FD_TABLE) \cup {last'.ret.val}
    /\ \A fd \in OpenFds(FD_TABLE') \ OpenFds(FD_TABLE) :
          last'.op = "fs_open" /\ last'.ret = Some(fd)
    /\ (last'.op = "fs_close" /\ last'.ret = Some(0)) =>
          OpenFds(FD_TABLE') = OpenFds(FD_TABLE) \ {last'.arg}
    /\ (last'.op \in {"fs_read", "fs_write", "fs_close"} /\ last'.arg \notin OpenFds(FD_TABLE)) =>
          /\ last'.ret = Some(USIZE_MAX)
          /\ UNCHANGED <<FILE_TABLE, FD_TABLE>>
    /\ \A i \in DOMAIN FD_TABLE' : FD_TABLE'[i].used => FD_TABLE'[i].pos <= FILE_CAP

C40_DescriptorLifecycle == [][C40_Step]_vars

\* a write to a closed descriptor has failed while another descriptor is open
\* at the end of a full file
C40_Witness ==
    /\ last.op = "fs_write" /\ last.ret = Some(USIZE_MAX)
    /\ last.arg = FD_BASE
    /\ ~FD_TABLE[0].used
    /\ FD_TABLE[1].used /\ FD_TABLE[1].pos = FILE_CAP

====
